---------------------------- MODULE Spec2Model ----------------------------
(***************************************************************************)
(* A model of the ingestion pipeline: the ingestion engine                 *)
(* (src/src/services/ingestion.js), the storage gateway                    *)
(* (src/src/services/database.js), the alert service (src/unnamed/part_002)*)
(* and the PostgreSQL schema they run on (src/schema.sql).                 *)
(*                                                                         *)
(* The store is PostgreSQL (README: "PostgreSQL >= 12", schema.sql uses    *)
(* SERIAL and JSONB) reached through node-postgres.  The model keeps the   *)
(* three properties of that store the code relies on or trips over:        *)
(*   - READ COMMITTED: every statement sees the committed rows plus the    *)
(*     writes of its own transaction;                                      *)
(*   - a statement that fails inside a transaction block leaves the        *)
(*     transaction aborted: every later statement of the block fails       *)
(*     until ROLLBACK, and nothing of the block is ever committed;         *)
(*   - SERIAL counters advance outside transactions.                       *)
(***************************************************************************)
EXTENDS Integers, Sequences, FiniteSets, TLC

(***************************************************************************)
(* Bounds of the model.                                                    *)
(***************************************************************************)
\* Longest input sequence handed to ingestRecords.
MaxLen == 2
\* Number of ingestRecords calls in one behaviour.
MaxRuns == 2

(***************************************************************************)
(* Field values.  A field holds a short text, or Undef when the producer   *)
(* left the property out (JavaScript undefined).  Two tokens stand for     *)
(* texts too long to spell out; StrLen gives the length they stand for.    *)
(***************************************************************************)
Undef == "<undefined>"
LongKey == "<source_key of 256 chars>"
LongStatus == "<status of 51 chars>"
LongName == "<entity_name_norm of 256 chars>"
Circular == "<circular raw_json>"

StrLen(v) ==
    CASE v = LongKey -> 256
      [] v = LongStatus -> 51
      [] v = LongName -> 256
      [] OTHER -> Len(v)

\* JavaScript truthiness of a field value: undefined and "" are falsy.
Truthy(v) == v # Undef /\ v # ""

\* Template-literal conversion `${v}`: undefined prints as "undefined".
Str(v) == IF v = Undef THEN "undefined" ELSE v

\* new Date(published_at).getTime(), as the age in hours before now;
\* NaN when the text does not parse (new Date(undefined) is NaN too).
NaN == -1
AgeHours(published_at) ==
    CASE published_at = "now-10h" -> 10
      [] published_at = "now-100h" -> 100
      [] published_at = "now-72h" -> 72
      [] published_at = "now-73h" -> 73
      [] OTHER -> NaN

\* String.prototype.toLowerCase and trim on the names the records carry.
toLowerCase(s) ==
    CASE s = "Acme Energy LLC" -> "acme energy llc"
      [] s = " Acme Energy LLC " -> " acme energy llc "
      [] s = "Beta Corp" -> "beta corp"
      [] OTHER -> s

trim(s) ==
    CASE s = " Acme Energy LLC " -> "Acme Energy LLC"
      [] s = " acme energy llc " -> "acme energy llc"
      [] OTHER -> s

\* mock_connector.js: raw.toLowerCase().trim()
normalizeEntityName(raw) == trim(toLowerCase(raw))

\* /^[A-Z]{2}$/.test(region)
RegionPattern(region) == region \in {"TX", "CA"}

(***************************************************************************)
(* Canonical records handed over by a connector.                           *)
(***************************************************************************)
RecA ==
    [source_key |-> "TX-001", published_at |-> "now-10h", title |-> "A",
     entity_name_raw |-> "Acme Energy LLC", entity_name_norm |-> "acme energy llc",
     region |-> "TX", record_id |-> "R1", status |-> "open",
     document_url |-> "u", raw_json |-> "{a}"]
\* RecA with another title: a content change under the same source_key.
RecA2 == [RecA EXCEPT !.title = "A2"]
RecB ==
    [source_key |-> "TX-002", published_at |-> "now-10h", title |-> "B",
     entity_name_raw |-> "Beta Corp", entity_name_norm |-> "beta corp",
     region |-> "CA", record_id |-> "R2", status |-> "open",
     document_url |-> Undef, raw_json |-> "{b}"]
\* Published outside the 72-hour window.
RecOld == [RecB EXCEPT !.published_at = "now-100h"]
\* Lowercase region: refused by validateRecord, accepted by VARCHAR(10).
RecLower == [RecB EXCEPT !.region = "tx"]
\* Passes validateRecord, violates status VARCHAR(50).
RecLong == [RecB EXCEPT !.status = LongStatus]
\* raw_json that JSON.stringify cannot serialise (it throws a TypeError).
RecCirc == [RecB EXCEPT !.raw_json = Circular]
\* A connector that does not compute entity_name_norm (unnamed/part_000).
RecNoNorm == [RecB EXCEPT !.entity_name_norm = Undef]
\* A source_key of 256 characters.
RecLongKey == [RecB EXCEPT !.source_key = LongKey]
\* A published_at that new Date cannot parse.
RecBadDate == [RecB EXCEPT !.published_at = "yesterday"]
\* entity_name_norm as the producer found the name, not normalized
RecUpper == [RecA EXCEPT !.entity_name_norm = "Acme Energy LLC"]
\* a padded name, normalized by the producer
RecPadded ==
    [RecA EXCEPT !.entity_name_raw = " Acme Energy LLC ",
                 !.entity_name_norm = normalizeEntityName(" Acme Energy LLC ")]
\* RecA with another original payload
RecRaw == [RecA EXCEPT !.raw_json = "{b}"]
\* two records whose status and title hold the separators of the serialization
RecSplit1 == [RecA EXCEPT !.status = "open|title:A", !.title = "B"]
RecSplit2 == [RecA EXCEPT !.status = "open", !.title = "A|title:B"]
\* published exactly 72 hours ago, and an hour earlier
RecEdge == [RecB EXCEPT !.published_at = "now-72h"]
RecLate == [RecB EXCEPT !.published_at = "now-73h"]

RECURSIVE SeqsUpTo(_, _)
SeqsUpTo(S, n) ==
    IF n = 0 THEN {<< >>}
    ELSE LET shorter == SeqsUpTo(S, n - 1)
         IN  shorter \cup {Append(s, x) : s \in {t \in shorter : Len(t) = n - 1}, x \in S}

(***************************************************************************)
(* IngestionService.validateRecord: the reasons it collects; it throws a   *)
(* ValidationError when there is at least one.                             *)
(***************************************************************************)
RequiredFields ==
    <<"source_key", "published_at", "title", "entity_name_raw",
      "entity_name_norm", "region", "record_id", "status">>

MaxSourceKeyLen == 255

validateErrors(record) ==
    {<<"missing", RequiredFields[f]>> :
        f \in {g \in DOMAIN RequiredFields : ~Truthy(record[RequiredFields[g]])}}
    \cup (IF Truthy(record.source_key) /\ StrLen(record.source_key) > MaxSourceKeyLen
          THEN {<<"too long", "source_key">>} ELSE {})
    \cup (IF Truthy(record.published_at) /\ AgeHours(record.published_at) = NaN
          THEN {<<"invalid", "published_at">>} ELSE {})
    \cup (IF Truthy(record.region) /\ ~RegionPattern(record.region)
          THEN {<<"invalid", "region">>} ELSE {})

validateRecord(record) == validateErrors(record) = {}

(***************************************************************************)
(* IngestionService.generateContentHash.  The digest is modelled by the    *)
(* text it is taken of (SHA-256 is assumed free of collisions), so two     *)
(* records have the same content_hash iff they serialise to the same text. *)
(***************************************************************************)
\* A fingerprint that leaves published_at out.
contentFieldsUndated(record) ==
    [source_key |-> record.source_key,
     published_at |-> "",
     title |-> record.title,
     entity_name_raw |-> record.entity_name_raw,
     entity_name_norm |-> record.entity_name_norm,
     region |-> record.region,
     record_id |-> record.record_id,
     status |-> record.status,
     document_url |-> IF Truthy(record.document_url) THEN record.document_url ELSE ""]

contentFields(record) ==
    [source_key |-> record.source_key,
     published_at |-> record.published_at,
     title |-> record.title,
     entity_name_raw |-> record.entity_name_raw,
     entity_name_norm |-> record.entity_name_norm,
     region |-> record.region,
     record_id |-> record.record_id,
     status |-> record.status,
     document_url |-> IF Truthy(record.document_url) THEN record.document_url ELSE ""]

\* Object.keys(contentFields).sort()
sortedKeys ==
    <<"document_url", "entity_name_norm", "entity_name_raw", "published_at",
      "record_id", "region", "source_key", "status", "title">>

RECURSIVE JoinPairs(_, _)
JoinPairs(fields, k) ==
    IF k > Len(sortedKeys) THEN ""
    ELSE (IF k = 1 THEN "" ELSE "|")
         \o sortedKeys[k] \o ":" \o Str(fields[sortedKeys[k]])
         \o JoinPairs(fields, k + 1)

\* A fingerprint that takes the original payload in.
generateContentHashWithRaw(record) ==
    JoinPairs(contentFields(record), 1) \o "|raw_json:" \o Str(record.raw_json)

generateContentHash(record) == JoinPairs(contentFields(record), 1)

(***************************************************************************)
(* IngestionService.filterRecentWindow(records, hours).                    *)
(***************************************************************************)
RecentWindowHours == 72

\* A window that leaves out the instant exactly hours ago.
InWindowStrict(r, hours) == AgeHours(r.published_at) # NaN /\ AgeHours(r.published_at) < hours

InWindow(r, hours) == AgeHours(r.published_at) # NaN /\ AgeHours(r.published_at) <= hours

filterRecentWindow(recs, hours) == SelectSeq(recs, LAMBDA r : InWindow(r, hours))


(***************************************************************************)
(* The store: src/schema.sql.                                              *)
(***************************************************************************)
Null == "<null>"
NoRow == [id |-> 0]

StatusMaxLen == 50
RecordIdMaxLen == 100
RegionMaxLen == 10
NameMaxLen == 255

\* What pg sends for a parameter: undefined goes out as NULL.
Param(v) == IF v = Undef THEN Null ELSE v

\* The column constraints of table records (NOT NULL, VARCHAR(n), TIMESTAMP)
\* on the values an INSERT or UPDATE of processRecord supplies.
recordColumnsOk(record) ==
    /\ \A f \in DOMAIN RequiredFields : Param(record[RequiredFields[f]]) # Null
    /\ StrLen(record.source_key) <= MaxSourceKeyLen
    /\ AgeHours(record.published_at) # NaN
    /\ StrLen(record.entity_name_raw) <= NameMaxLen
    /\ StrLen(record.entity_name_norm) <= NameMaxLen
    /\ StrLen(record.region) <= RegionMaxLen
    /\ StrLen(record.record_id) <= RecordIdMaxLen
    /\ StrLen(record.status) <= StatusMaxLen

\* JSON.stringify(record.raw_json || {}) throws on a value it cannot serialise.
stringifyThrows(record) == record.raw_json = Circular

\* A row written without its content_hash.
recordRowUnhashed(id, record, contentHash, sourceType, writer) ==
    [id |-> id,
     source_key |-> record.source_key,
     published_at |-> record.published_at,
     title |-> record.title,
     entity_name_raw |-> record.entity_name_raw,
     entity_name_norm |-> record.entity_name_norm,
     region |-> record.region,
     record_id |-> record.record_id,
     status |-> record.status,
     document_url |-> IF Truthy(record.document_url) THEN record.document_url ELSE Null,
     raw_json |-> IF Truthy(record.raw_json) THEN record.raw_json ELSE "{}",
     content_hash |-> "",
     last_source_type |-> sourceType,
     writer |-> writer]

\* The row an INSERT or UPDATE of processRecord writes.  writer is not a
\* column: it remembers which ingestRecords call wrote the row.
recordRow(id, record, contentHash, sourceType, writer) ==
    [id |-> id,
     source_key |-> record.source_key,
     published_at |-> record.published_at,
     title |-> record.title,
     entity_name_raw |-> record.entity_name_raw,
     entity_name_norm |-> record.entity_name_norm,
     region |-> record.region,
     record_id |-> record.record_id,
     status |-> record.status,
     document_url |-> IF Truthy(record.document_url) THEN record.document_url ELSE Null,
     raw_json |-> IF Truthy(record.raw_json) THEN record.raw_json ELSE "{}",
     content_hash |-> contentHash,
     last_source_type |-> sourceType,
     writer |-> writer]

Procs == {"p1", "p2"}

VARIABLES
    records,          \* committed rows of table records
    ingestion_runs,   \* committed rows of table ingestion_runs
    alert_rules,      \* committed rows of table alert_rules
    alert_logs,       \* committed rows of table alert_logs
    users,            \* table users: id -> plan
    serial,           \* the SERIAL counters, one per table
    txn,              \* per connection: the transaction block and its own writes
    pc,               \* per call: the statement it issues next
    call,             \* per call: the arguments of ingestRecords as it uses them
    cur,              \* per call: processBatch's loop and counters, runId, the error
    metrics,          \* IngestionService.metrics
    outcome,          \* per call, in the order they began: running, resolved, rejected
    last,             \* the call that settled last, until the next call begins
    prev,             \* the settled call that the call under way repeats
    req,              \* per create-alert request: its position and what it read
    db,               \* per caller: DatabaseService.transaction and .query under way
    cache,            \* AlertsService: ruleCache, lastCacheUpdate, the getCachedRules calls
    now,              \* Date.now(), in minutes
    gateway,          \* DatabaseService: pool, isConnected, the reconnect loop
    walk              \* processBatch's loops on their own: i, the batch, the records visited

storeVars == <<records, ingestion_runs, alert_rules, alert_logs, users, serial>>
vars == <<records, ingestion_runs, alert_rules, alert_logs, users, serial,
          txn, pc, call, cur, metrics, outcome, last, prev, req, db, cache, now,
          gateway, walk>>

(***************************************************************************)
(* Transactions on one checked-out connection.                             *)
(*   state "none"   no connection checked out                              *)
(*         "idle"   checked out, no block open                             *)
(*         "open"   inside BEGIN .. COMMIT                                 *)
(*         "failed" a statement of the block failed: the server refuses    *)
(*                  every further statement until ROLLBACK                 *)
(*         "lost"   the connection is gone: every statement fails          *)
(***************************************************************************)
NoTxn == [state |-> "none", rows |-> {}, runs |-> {}, logs |-> {}, rules |-> {}]

\* The server drops the writes of a block as soon as it fails.
failTxn(t, state) == [NoTxn EXCEPT !.state = state]

\* A statement on the transactional handle can be executed.
usable(p) == txn[p].state = "open"

\* Rows of records a statement of p sees: committed ones, overlaid by its own.
visibleRecords(p) ==
    {r \in records : \A w \in txn[p].rows : w.id # r.id} \cup txn[p].rows

\* Another open transaction holds an uncommitted write of this source_key:
\* an INSERT or UPDATE of the same key waits for it to end.
lockedByOther(p, key) ==
    \E q \in Procs \ {p} :
        /\ txn[q].state = "open"
        /\ \E w \in txn[q].rows : w.source_key = key

(***************************************************************************)
(* One ingestRecords call (IngestionService.ingestRecords and what it      *)
(* calls), one step per database round trip.  Every action takes the set   *)
(* of outcomes of the connection it may meet: lost \in {FALSE} where the   *)
(* connection holds, lost \in BOOLEAN where it may drop at any statement.  *)
(***************************************************************************)
DefaultBatchSize == 100

NoResult ==
    [runId |-> 0, sourceType |-> "", recordsFetched |-> 0, recordsInserted |-> 0,
     recordsUpdated |-> 0, recordsSkipped |-> 0, recordsFailed |-> 0]

NoGiven == [isArray |-> TRUE, items |-> << >>]

\* The arguments of a call (records after the time filter), and what the
\* properties compare the call's effects with: the arguments as given and
\* the store and metrics as they were when the call began.
NoCall ==
    [records |-> << >>, sourceType |-> "", batchSize |-> 0, tag |-> 0,
     given |-> NoGiven, validate |-> FALSE, connected |-> FALSE, lostAt |-> "",
     before |-> {}, runsBefore |-> {}, logsBefore |-> {}, bulkDone |-> {},
     metricsBefore |-> [totalIngestions |-> 0, totalRecordsProcessed |-> 0,
                        totalErrors |-> 0]]

NoCur ==
    [i |-> 0, j |-> 0, inserted |-> 0, updated |-> 0, skipped |-> 0, failed |-> 0,
     results |-> << >>, existing |-> NoRow, recordId |-> 0, actionType |-> "",
     runId |-> 0, aborted |-> "", error |-> "", result |-> NoResult]

\* A settled call.
NoLast ==
    [call |-> NoCall, outcome |-> "", error |-> "", cause |-> "", aborted |-> "",
     followup |-> "", runId |-> 0, result |-> NoResult, results |-> << >>,
     failed |-> 0]

\* The record processBatch is at: records.slice(i, i + batchSize)[j].
curRecord(p) == call[p].records[cur[p].i + cur[p].j + 1]

\* records.slice(i, i + batchSize).length
batchLen(p, i) ==
    (IF i + call[p].batchSize < Len(call[p].records)
     THEN i + call[p].batchSize ELSE Len(call[p].records)) - i

\* A loop that leaves a batch after its first record.
advanceBatch(p, c) == [c EXCEPT !.i = c.i + call[p].batchSize, !.j = 0]

\* processBatch moves to the next record, or leaves its loops.
advance(p, c) ==
    IF c.j + 1 < batchLen(p, c.i)
    THEN [c EXCEPT !.j = c.j + 1]
    ELSE [c EXCEPT !.i = c.i + call[p].batchSize, !.j = 0]

loopDone(p, c) == ~(c.i < Len(call[p].records))

nextPc(p, c) == IF loopDone(p, c) THEN "finish" ELSE "select"

\* A catch that records the failure without counting it.
recordFailedUncounted(p, c) ==
    advance(p, [c EXCEPT !.results = Append(c.results, "failed")])

\* processBatch's catch: the record is counted as failed and the loop goes on.
recordFailed(p, c) ==
    advance(p, [c EXCEPT !.failed = c.failed + 1,
                         !.results = Append(c.results, "failed")])

\* A result list that reports every finished record as skipped.
recordDoneSkipped(p, c, action) ==
    advance(p, [c EXCEPT !.results = Append(c.results, "skipped")])

\* processRecord returned {action: ...}.
recordDone(p, c, action) ==
    advance(p, [c EXCEPT !.results = Append(c.results, action)])

\* The index (from 0) of the first record validateRecord refuses, or -1.
firstInvalid(recs) ==
    IF \A k \in DOMAIN recs : validateRecord(recs[k]) THEN -1
    ELSE (CHOOSE k \in DOMAIN recs :
            /\ ~validateRecord(recs[k])
            /\ \A m \in 1..(k - 1) : validateRecord(recs[m])) - 1

\* An ingestRecords that skips the per-record validation.
refusedWithoutRecords(given, sourceType, validate, filtered) ==
    \/ ~given.isArray
    \/ Len(given.items) = 0
    \/ sourceType \notin {"bulk", "recent"}

\* Lines 259-283: what ingestRecords refuses before it opens a transaction.
refused(given, sourceType, validate, filtered) ==
    \/ ~given.isArray
    \/ Len(given.items) = 0
    \/ sourceType \notin {"bulk", "recent"}
    \/ validate /\ firstInvalid(filtered) # -1

\* Lines 272-274: a recent run keeps the records of the last 72 hours.
toProcess(given, sourceType) ==
    IF sourceType = "recent"
    THEN filterRecentWindow(given.items, RecentWindowHours)
    ELSE given.items

\* The source_keys a settled call processed as a committed bulk run: those of
\* the records it inserted, updated or skipped.
bulkProcessed(settled) ==
    IF settled.outcome = "resolved" /\ settled.call.sourceType = "bulk"
    THEN {settled.call.records[k].source_key :
            k \in {n \in DOMAIN settled.results :
                      settled.results[n] \in {"inserted", "updated", "skipped"}}}
    ELSE {}

\* ingestRecords, lines 254-291.  given is the records argument: whether it
\* is an array, and its elements.
StartRun(p, given, sourceType, batchSize, validate) ==
    /\ pc[p] = "idle"
    /\ Len(outcome) < MaxRuns
    /\ LET filtered == toProcess(given, sourceType)
           c == [records |-> filtered, sourceType |-> sourceType,
                 batchSize |-> IF batchSize = 0 THEN DefaultBatchSize ELSE batchSize,
                 tag |-> Len(outcome) + 1,
                 given |-> given, validate |-> validate, connected |-> FALSE,
                 lostAt |-> "",
                 before |-> records, runsBefore |-> ingestion_runs,
                 logsBefore |-> alert_logs, bulkDone |-> bulkProcessed(last),
                 metricsBefore |-> metrics]
       IN  IF refused(given, sourceType, validate, filtered)
           THEN /\ outcome' = Append(outcome, "rejected")
                /\ last' = [NoLast EXCEPT !.call = c, !.outcome = "rejected",
                                          !.error = "ValidationError", !.cause = "input"]
                /\ UNCHANGED <<pc, call>>
           ELSE /\ outcome' = Append(outcome, "running")
                /\ last' = NoLast
                /\ pc' = [pc EXCEPT ![p] = "connect"]
                /\ call' = [call EXCEPT ![p] = c]
    /\ prev' = IF /\ last.outcome # ""
                   /\ last.call.given = given
                   /\ last.call.sourceType = sourceType
                THEN last ELSE NoLast
    /\ UNCHANGED <<storeVars, txn, cur, metrics, req, db, cache, now, gateway, walk>>

\* ingestRecords rejects (lines 365-371): totalErrors++ and the throw.
reject(p, cause, followup) ==
    /\ outcome' = [outcome EXCEPT ![call[p].tag] = "rejected"]
    /\ last' = [call |-> call[p], outcome |-> "rejected", error |-> "DatabaseError",
                cause |-> cause, aborted |-> cur[p].aborted, followup |-> followup,
                runId |-> cur[p].runId, result |-> NoResult,
                results |-> cur[p].results, failed |-> cur[p].failed]
    /\ metrics' = [metrics EXCEPT !.totalErrors = @ + 1]
    /\ pc' = [pc EXCEPT ![p] = "idle"]
    /\ call' = [call EXCEPT ![p] = NoCall]
    /\ cur' = [cur EXCEPT ![p] = NoCur]

\* DatabaseService.getClient: pool.connect() hands out a connection or fails;
\* a failure reaches ingestRecords' catch with runId unset.
GetClient(p, F) ==
    /\ pc[p] = "connect"
    /\ \E lost \in F :
        IF lost
        THEN /\ reject(p, "connect", "none")
             /\ UNCHANGED txn
        ELSE /\ txn' = [txn EXCEPT ![p] = [NoTxn EXCEPT !.state = "idle"]]
             /\ pc' = [pc EXCEPT ![p] = "begin"]
             /\ call' = [call EXCEPT ![p].connected = TRUE]
             /\ UNCHANGED <<cur, metrics, outcome, last>>
    /\ UNCHANGED <<storeVars, prev, req, db, cache, now, gateway, walk>>

\* The connection drops at the statement named: the handle's query throws.
lose(p, at) ==
    /\ txn' = [txn EXCEPT ![p] = failTxn(@, "lost")]
    /\ call' = [call EXCEPT ![p].lostAt = at]

\* DatabaseService.transaction: BEGIN.
Begin(p, F) ==
    /\ pc[p] = "begin"
    /\ \E lost \in F :
        IF lost
        THEN /\ lose(p, "BEGIN")
             /\ cur' = [cur EXCEPT ![p].error = "BEGIN", ![p].aborted = "lost"]
             /\ pc' = [pc EXCEPT ![p] = "rollback"]
        ELSE /\ txn' = [txn EXCEPT ![p].state = "open"]
             /\ pc' = [pc EXCEPT ![p] = "runrow"]
             /\ UNCHANGED <<cur, call>>
    /\ UNCHANGED <<storeVars, metrics, outcome, last, prev, req, db, cache, now, gateway,
                   walk>>

\* Lines 296-302: INSERT INTO ingestion_runs ... RETURNING id, then the entry
\* into processBatch.
InsertRun(p, F) ==
    /\ pc[p] = "runrow"
    /\ \E lost \in F :
        IF lost
        THEN /\ lose(p, "INSERT ingestion_runs")
             /\ cur' = [cur EXCEPT ![p].error = "INSERT ingestion_runs",
                                   ![p].aborted = "lost"]
             /\ pc' = [pc EXCEPT ![p] = "rollback"]
             /\ UNCHANGED serial
        ELSE LET id == serial.ingestion_runs + 1
                 row == [id |-> id, source_type |-> call[p].sourceType,
                         records_fetched |-> Len(call[p].records),
                         finished_at |-> Null, records_inserted |-> 0,
                         records_updated |-> 0, error |-> Null]
             IN  /\ serial' = [serial EXCEPT !.ingestion_runs = id]
                 /\ txn' = [txn EXCEPT ![p].runs = {row}]
                 /\ cur' = [cur EXCEPT ![p].runId = id]
                 /\ pc' = [pc EXCEPT ![p] = nextPc(p, cur[p])]
                 /\ UNCHANGED call
    /\ UNCHANGED <<records, ingestion_runs, alert_rules, alert_logs, users,
                   metrics, outcome, last, prev, req, db, cache, now, gateway, walk>>

\* A processRecord without the precedence rule.
precedenceIgnored(sourceType, existingRow) == FALSE

\* processRecord, line 152: bulk is the master, recent must not override it.
precedenceSkip(sourceType, existingRow) ==
    sourceType = "recent" /\ existingRow.last_source_type = "bulk"

\* processRecord, lines 107-115 and the branches that issue no further
\* statement: the SELECT by source_key, then skip by source precedence
\* (152-155), skip as identical (200-203), or on to the INSERT or UPDATE,
\* whose arguments are evaluated first (JSON.stringify may throw).
SelectExisting(p, F) ==
    /\ pc[p] = "select"
    /\ LET record == curRecord(p)
           contentHash == generateContentHash(record)
           found == {r \in visibleRecords(p) : r.source_key = Param(record.source_key)}
       IN  \E lost \in F :
            IF lost /\ usable(p)
            THEN /\ lose(p, "SELECT records")
                 /\ cur' = [cur EXCEPT ![p] = recordFailed(p, [@ EXCEPT !.aborted = "lost"])]
            ELSE IF ~usable(p)
            THEN \* the statement is refused; processBatch catches the error
                 /\ cur' = [cur EXCEPT ![p] = recordFailed(p, @)]
                 /\ UNCHANGED <<txn, call>>
            ELSE /\ UNCHANGED <<txn, call>>
                 /\ IF found = {}
                    THEN IF stringifyThrows(record)
                         THEN cur' = [cur EXCEPT ![p] = recordFailed(p, @)]
                         ELSE cur' = [cur EXCEPT ![p].existing = NoRow,
                                                 ![p].actionType = "insert"]
                    ELSE \E existingRow \in found :
                         IF precedenceSkip(call[p].sourceType, existingRow)
                         THEN cur' = [cur EXCEPT ![p] =
                                 recordDone(p, [@ EXCEPT !.skipped = @ + 1], "skipped")]
                         ELSE IF existingRow.content_hash # contentHash
                         THEN IF stringifyThrows(record)
                              THEN cur' = [cur EXCEPT ![p] = recordFailed(p, @)]
                              ELSE cur' = [cur EXCEPT ![p].existing = existingRow,
                                                      ![p].actionType = "update"]
                         ELSE cur' = [cur EXCEPT ![p] =
                                 recordDone(p, [@ EXCEPT !.skipped = @ + 1], "skipped")]
    /\ pc' = [pc EXCEPT ![p] =
           IF Len(cur'[p].results) > Len(cur[p].results)
           THEN nextPc(p, cur'[p])
           ELSE cur'[p].actionType]
    /\ UNCHANGED <<storeVars, metrics, outcome, last, prev, req, db, cache, now, gateway,
                   walk>>

\* p waits for a key held by a transaction that itself waits for a key p
\* holds: PostgreSQL's deadlock detector fails the waiting statement.
deadlocked(p, key) ==
    \E q \in Procs \ {p} :
        /\ txn[q].state = "open"
        /\ \E w \in txn[q].rows : w.source_key = key
        /\ pc[q] \in {"insert", "update"}
        /\ txn[p].state = "open"
        /\ \E w \in txn[p].rows : w.source_key = curRecord(q).source_key

\* A records table without the UNIQUE constraint on source_key.
uniqueViolationDropped(p, key) == FALSE

\* records.source_key is UNIQUE (schema.sql line 14): an INSERT of a key that a
\* visible row already has is refused.
uniqueViolation(p, key) == \E r \in visibleRecords(p) : r.source_key = key

\* The statement fails on the server: the block is aborted, processBatch
\* catches the error and counts the record as failed.
statementFails(p, reason) ==
    /\ txn' = [txn EXCEPT ![p] = failTxn(@, "failed")]
    /\ cur' = [cur EXCEPT ![p] = recordFailed(p, [@ EXCEPT !.aborted = reason])]
    /\ pc' = [pc EXCEPT ![p] = nextPc(p, cur'[p])]
    /\ UNCHANGED call

\* An INSERT sent through the pool instead of the transaction's connection:
\* it commits on its own.
InsertRecordOnPool(p, F) ==
    /\ pc[p] = "insert"
    /\ LET record == curRecord(p)
           id == serial.records + 1
       IN  /\ serial' = [serial EXCEPT !.records = id]
           /\ records' = records \cup
                  {recordRow(id, record, generateContentHash(record),
                             call[p].sourceType, call[p].tag)}
           /\ cur' = [cur EXCEPT ![p].inserted = @ + 1, ![p].recordId = id]
           /\ pc' = [pc EXCEPT ![p] = "alerts"]
    /\ UNCHANGED <<ingestion_runs, alert_rules, alert_logs, users, txn, call,
                   metrics, outcome, last, prev, req, db, cache, now, gateway, walk>>

\* processRecord, lines 117-140: INSERT INTO records ... RETURNING id.
InsertRecord(p, F) ==
    /\ pc[p] = "insert"
    /\ LET record == curRecord(p)
           contentHash == generateContentHash(record)
           id == serial.records + 1
       IN  \E lost \in F :
            IF lost
            THEN /\ lose(p, "INSERT records")
                 /\ cur' = [cur EXCEPT ![p] = recordFailed(p, [@ EXCEPT !.aborted = "lost"])]
                 /\ pc' = [pc EXCEPT ![p] = nextPc(p, cur'[p])]
                 /\ UNCHANGED serial
            ELSE /\ ~lockedByOther(p, record.source_key) \/ deadlocked(p, record.source_key)
                 /\ IF \/ deadlocked(p, record.source_key)
                       \/ ~recordColumnsOk(record)
                       \/ uniqueViolation(p, record.source_key)
                    THEN /\ statementFails(p,
                                IF deadlocked(p, record.source_key) THEN "deadlock"
                                ELSE IF ~recordColumnsOk(record) THEN "column"
                                ELSE "unique")
                         /\ UNCHANGED serial
                    ELSE /\ serial' = [serial EXCEPT !.records = id]
                         /\ txn' = [txn EXCEPT ![p].rows = @ \cup
                                {recordRow(id, record, contentHash,
                                           call[p].sourceType, call[p].tag)}]
                         /\ cur' = [cur EXCEPT ![p].inserted = @ + 1,
                                               ![p].recordId = id]
                         /\ pc' = [pc EXCEPT ![p] = "alerts"]
                         /\ UNCHANGED call
    /\ UNCHANGED <<records, ingestion_runs, alert_rules, alert_logs, users,
                   metrics, outcome, last, prev, req, db, cache, now, gateway, walk>>

\* processRecord, lines 158-190: UPDATE records SET ... WHERE source_key = $1.
UpdateRecord(p, F) ==
    /\ pc[p] = "update"
    /\ LET record == curRecord(p)
           contentHash == generateContentHash(record)
           hit == {r \in visibleRecords(p) : r.source_key = record.source_key}
       IN  \E lost \in F :
            IF lost
            THEN /\ lose(p, "UPDATE records")
                 /\ cur' = [cur EXCEPT ![p] = recordFailed(p, [@ EXCEPT !.aborted = "lost"])]
                 /\ pc' = [pc EXCEPT ![p] = nextPc(p, cur'[p])]
            ELSE /\ ~lockedByOther(p, record.source_key) \/ deadlocked(p, record.source_key)
                 /\ IF deadlocked(p, record.source_key) \/ ~recordColumnsOk(record)
                    THEN statementFails(p,
                            IF deadlocked(p, record.source_key) THEN "deadlock"
                            ELSE "column")
                    ELSE /\ txn' = [txn EXCEPT ![p].rows =
                                {w \in @ : \A r \in hit : r.id # w.id} \cup
                                {recordRow(r.id, record, contentHash,
                                           call[p].sourceType, call[p].tag) : r \in hit}]
                         /\ cur' = [cur EXCEPT ![p].updated = @ + 1,
                                               ![p].recordId = cur[p].existing.id]
                         /\ pc' = [pc EXCEPT ![p] = "alerts"]
                         /\ UNCHANGED call
    /\ UNCHANGED <<storeVars, metrics, outcome, last, prev, req, db, cache, now, gateway,
                   walk>>

\* A WHERE clause in which one equal filter is enough.
ruleMatchesAny(rule, row) ==
    \/ rule.entity_name_norm # Null /\ rule.entity_name_norm = row.entity_name_norm
    \/ rule.region # Null /\ rule.region = row.region

\* The WHERE clause of checkAndTriggerAlerts (unnamed/part_002, 214-219).
ruleMatches(rule, row) ==
    /\ rule.entity_name_norm = Null \/ rule.entity_name_norm = row.entity_name_norm
    /\ rule.region = Null \/ rule.region = row.region

\* A fan-out that logs the first matching rule only.
TriggerAlertsFirstOnly(p, F) ==
    /\ pc[p] = "alerts"
    /\ LET rows == {r \in visibleRecords(p) : r.id = cur[p].recordId}
           matched == {a \in alert_rules : \E r \in rows : ruleMatches(a, r)}
           first == {a \in matched : \A b \in matched : a.id <= b.id}
           logs == {[alert_rule_id |-> a.id, record_id |-> cur[p].recordId,
                     action_type |-> cur[p].actionType,
                     run |-> call[p].tag, at |-> cur[p].i + cur[p].j] : a \in first}
       IN  \E lost \in F :
            IF lost
            THEN /\ lose(p, "alerts")
                 /\ cur' = [cur EXCEPT ![p] = recordFailed(p, [@ EXCEPT !.aborted = "lost"])]
            ELSE /\ txn' = [txn EXCEPT ![p].logs = @ \cup logs]
                 /\ cur' = [cur EXCEPT ![p] =
                        recordDone(p, @, IF cur[p].actionType = "insert"
                                         THEN "inserted" ELSE "updated")]
                 /\ UNCHANGED call
    /\ pc' = [pc EXCEPT ![p] = nextPc(p, cur'[p])]
    /\ UNCHANGED <<storeVars, metrics, outcome, last, prev, req, db, cache, now, gateway,
                   walk>>

\* AlertsService.checkAndTriggerAlerts(recordId, actionType, client), called
\* from processRecord (lines 143 and 193): read the record, select the
\* matching rules, append one alert_logs row per match in one INSERT.
TriggerAlerts(p, F) ==
    /\ pc[p] = "alerts"
    /\ LET rows == {r \in visibleRecords(p) : r.id = cur[p].recordId}
           matched == {a \in alert_rules : \E r \in rows : ruleMatches(a, r)}
           logs == {[alert_rule_id |-> a.id, record_id |-> cur[p].recordId,
                     action_type |-> cur[p].actionType,
                     run |-> call[p].tag, at |-> cur[p].i + cur[p].j] : a \in matched}
       IN  \E lost \in F :
            IF lost
            THEN /\ lose(p, "alerts")
                 /\ cur' = [cur EXCEPT ![p] = recordFailed(p, [@ EXCEPT !.aborted = "lost"])]
            ELSE /\ txn' = [txn EXCEPT ![p].logs = @ \cup logs]
                 /\ cur' = [cur EXCEPT ![p] =
                        recordDone(p, @, IF cur[p].actionType = "insert"
                                         THEN "inserted" ELSE "updated")]
                 /\ UNCHANGED call
    /\ pc' = [pc EXCEPT ![p] = nextPc(p, cur'[p])]
    /\ UNCHANGED <<storeVars, metrics, outcome, last, prev, req, db, cache, now, gateway,
                   walk>>

\* A final UPDATE that never writes the error summary.
FinishRunNoError(p, F) ==
    /\ pc[p] = "finish"
    /\ \E lost \in F :
        IF ~usable(p)
        THEN \* the server or the dead connection refuses the statement
             /\ cur' = [cur EXCEPT ![p].error = "UPDATE ingestion_runs"]
             /\ pc' = [pc EXCEPT ![p] = "rollback"]
             /\ UNCHANGED <<txn, call>>
        ELSE IF lost
        THEN /\ lose(p, "UPDATE ingestion_runs")
             /\ cur' = [cur EXCEPT ![p].error = "UPDATE ingestion_runs",
                                   ![p].aborted = "lost"]
             /\ pc' = [pc EXCEPT ![p] = "rollback"]
        ELSE /\ txn' = [txn EXCEPT ![p].runs =
                    {IF r.id = cur[p].runId
                     THEN [r EXCEPT !.finished_at = "set",
                                    !.records_inserted = cur[p].inserted,
                                    !.records_updated = cur[p].updated,
                                    !.error = Null]
                     ELSE r : r \in @}]
             /\ cur' = [cur EXCEPT ![p].result =
                    [runId |-> cur[p].runId,
                     sourceType |-> call[p].sourceType,
                     recordsFetched |-> Len(call[p].records),
                     recordsInserted |-> cur[p].inserted,
                     recordsUpdated |-> cur[p].updated,
                     recordsSkipped |-> cur[p].skipped,
                     recordsFailed |-> cur[p].failed]]
             /\ pc' = [pc EXCEPT ![p] = "commit"]
             /\ UNCHANGED call
    /\ UNCHANGED <<storeVars, metrics, outcome, last, prev, req, db, cache, now, gateway,
                   walk>>

\* ingestRecords, lines 309-335: the final UPDATE of the run row and the
\* result the callback returns.
FinishRun(p, F) ==
    /\ pc[p] = "finish"
    /\ \E lost \in F :
        IF ~usable(p)
        THEN \* the server or the dead connection refuses the statement
             /\ cur' = [cur EXCEPT ![p].error = "UPDATE ingestion_runs"]
             /\ pc' = [pc EXCEPT ![p] = "rollback"]
             /\ UNCHANGED <<txn, call>>
        ELSE IF lost
        THEN /\ lose(p, "UPDATE ingestion_runs")
             /\ cur' = [cur EXCEPT ![p].error = "UPDATE ingestion_runs",
                                   ![p].aborted = "lost"]
             /\ pc' = [pc EXCEPT ![p] = "rollback"]
        ELSE /\ txn' = [txn EXCEPT ![p].runs =
                    {IF r.id = cur[p].runId
                     THEN [r EXCEPT !.finished_at = "set",
                                    !.records_inserted = cur[p].inserted,
                                    !.records_updated = cur[p].updated,
                                    !.error = IF cur[p].failed > 0
                                              THEN ToString(cur[p].failed)
                                                   \o " records failed to process"
                                              ELSE Null]
                     ELSE r : r \in @}]
             /\ cur' = [cur EXCEPT ![p].result =
                    [runId |-> cur[p].runId,
                     sourceType |-> call[p].sourceType,
                     recordsFetched |-> Len(call[p].records),
                     recordsInserted |-> cur[p].inserted,
                     recordsUpdated |-> cur[p].updated,
                     recordsSkipped |-> cur[p].skipped,
                     recordsFailed |-> cur[p].failed]]
             /\ pc' = [pc EXCEPT ![p] = "commit"]
             /\ UNCHANGED call
    /\ UNCHANGED <<storeVars, metrics, outcome, last, prev, req, db, cache, now, gateway,
                   walk>>

\* An update that stores the run's count instead of adding it.
updateMetricsOverwrite(m, result) ==
    [m EXCEPT !.totalIngestions = @ + 1,
              !.totalRecordsProcessed = result.recordsFetched]

\* IngestionService.updateMetrics (the rolling average of wall-clock times is
\* left out: the model has no clock).
updateMetrics(m, result) ==
    [m EXCEPT !.totalIngestions = @ + 1,
              !.totalRecordsProcessed = @ + result.recordsFetched]

\* DatabaseService.transaction, lines 180-181 and 186: COMMIT makes the writes
\* of the block visible at once and the connection is released; then
\* ingestRecords, lines 339-348, updates the metrics and resolves.
Commit(p, F) ==
    /\ pc[p] = "commit"
    /\ \E lost \in F :
        IF lost
        THEN /\ lose(p, "COMMIT")
             /\ cur' = [cur EXCEPT ![p].error = "COMMIT", ![p].aborted = "lost"]
             /\ pc' = [pc EXCEPT ![p] = "rollback"]
             /\ UNCHANGED <<storeVars, metrics, outcome, last>>
        ELSE /\ records' = visibleRecords(p)
             /\ ingestion_runs' = ingestion_runs \cup txn[p].runs
             /\ alert_logs' = alert_logs \cup txn[p].logs
             /\ txn' = [txn EXCEPT ![p] = NoTxn]
             /\ metrics' = updateMetrics(metrics, cur[p].result)
             /\ outcome' = [outcome EXCEPT ![call[p].tag] = "resolved"]
             /\ last' = [call |-> call[p], outcome |-> "resolved", error |-> "",
                         cause |-> "", aborted |-> "", followup |-> "none",
                         runId |-> cur[p].runId, result |-> cur[p].result,
                         results |-> cur[p].results, failed |-> cur[p].failed]
             /\ pc' = [pc EXCEPT ![p] = "idle"]
             /\ call' = [call EXCEPT ![p] = NoCall]
             /\ cur' = [cur EXCEPT ![p] = NoCur]
             /\ UNCHANGED <<alert_rules, users, serial>>
    /\ UNCHANGED <<prev, req, db, cache, now, gateway, walk>>

\* DatabaseService.transaction, lines 182-187: ROLLBACK in the catch, release
\* in the finally.  ROLLBACK on a dead connection throws, and that error
\* replaces the one being handled.  Then ingestRecords' catch, line 352:
\* with a runId it tries the follow-up write, without one it rejects.
Rollback(p, F) ==
    /\ pc[p] = "rollback"
    /\ \E lost \in F :
        LET dead == lost \/ txn[p].state = "lost"
            error == IF dead THEN "ROLLBACK" ELSE cur[p].error
        IN  /\ txn' = [txn EXCEPT ![p] = NoTxn]
            /\ IF cur[p].runId # 0
               THEN /\ cur' = [cur EXCEPT ![p].error = error]
                    /\ pc' = [pc EXCEPT ![p] = "logfailure"]
                    /\ call' = [call EXCEPT ![p].lostAt =
                                    IF dead /\ @ = "" THEN "ROLLBACK" ELSE @]
                    /\ UNCHANGED <<metrics, outcome, last>>
               ELSE reject(p, error, "none")
    /\ UNCHANGED <<storeVars, prev, req, db, cache, now, gateway, walk>>

\* ingestRecords, lines 352-363: UPDATE ingestion_runs SET finished_at, error
\* WHERE id = runId, through the pool (its own connection, outside the
\* transaction); a failure of it is logged and swallowed.
LogFailure(p, F) ==
    /\ pc[p] = "logfailure"
    /\ \E lost \in F :
        IF lost
        THEN /\ reject(p, cur[p].error, "failed")
             /\ UNCHANGED ingestion_runs
        ELSE /\ ingestion_runs' =
                    {IF r.id = cur[p].runId
                     THEN [r EXCEPT !.finished_at = "set", !.error = cur[p].error]
                     ELSE r : r \in ingestion_runs}
             /\ reject(p, cur[p].error, "ok")
    /\ UNCHANGED <<records, alert_rules, alert_logs, users, serial, txn, prev, req,
                   db, cache, now, gateway, walk>>

(***************************************************************************)
(* The state after the schema is loaded (schema.sql: three sample users,   *)
(* empty tables) and the service objects are constructed.                  *)
(***************************************************************************)
SampleUsers == (1 :> "starter") @@ (2 :> "pro") @@ (3 :> "team")

\* Two rules of the pro user, created through POST /api/alerts before the
\* runs begin: one on a region, one on an entity name.
SampleRules ==
    {[id |-> 1, user_id |-> 2, entity_name_norm |-> Null, region |-> "TX"],
     [id |-> 2, user_id |-> 2, entity_name_norm |-> "acme energy llc", region |-> Null]}

\* An alert request.  before, stamp: the rules and the cache stamp it found;
\* queried: createAlertRule has sent a statement to the database.
NoReq == [pc |-> "idle", userId |-> 0, entityNameNorm |-> Null, region |-> Null,
          plan |-> "", currentCount |-> 0, count |-> 0, result |-> "",
          before |-> {}, kind |-> "", alertRuleId |-> 0, stamp |-> 0,
          queried |-> FALSE]

\* A transaction(callback) call: the statements it has issued on its client
\* in order (the callback counts as one, release() as the last), and those
\* that threw.
NoTransaction ==
    [pc |-> "idle", issued |-> << >>, threw |-> {}, error |-> "", settled |-> "",
     count |-> 0]

\* A query call: the handle it is issued on, the outcome of each attempt in
\* order, the attempt whose result was returned.
NoQuery ==
    [pc |-> "idle", handle |-> "", attempts |-> << >>, returned |-> 0,
     backoff |-> 0, settled |-> "", count |-> 0]

NoDb == [transaction |-> [p \in Procs |-> NoTransaction],
         query |-> [p \in Procs |-> NoQuery]]

\* processBatch before a call: records are named by their index.
NoWalk ==
    [pc |-> "idle", length |-> 0, batchSize |-> 0, i |-> 0, batch |-> << >>, k |-> 0,
     visited |-> << >>]

\* DatabaseService as its constructor leaves it (database.js, lines 11-17).
\* timers: the delays of the reconnect timers set and not yet fired;
\* probes: the health checks of fired timers still under way; scheduled and
\* failed count the probes set and failed since the counter was last reset;
\* exhausted: five probes have failed with the counter at its maximum.
maxReconnectAttempts == 5
reconnectDelay == 1000

NoGateway ==
    [pool |-> FALSE, isConnected |-> FALSE, reconnectAttempts |-> 0,
     timers |-> << >>, probes |-> 0,
     scheduled |-> 0, failed |-> 0, exhausted |-> FALSE,
     check |-> [pc |-> "idle", settled |-> "", count |-> 0], late |-> 0, held |-> 0]

\* AlertsService as its constructor leaves it (unnamed/part_002, lines
\* 16-27): an empty ruleCache and lastCacheUpdate = null.  The stamp is tested
\* for truthiness only, so null is written 0, which Date.now() never returns.
\* written: a createAlertRule or deleteAlertRule has succeeded since the last
\* getCachedRules call began.
Unset == 0
cacheTimeout == 5

\* A getCachedRules call: the stamp and the time it found, whether it went to
\* the database, the rows its SELECT returned, what it answered; table is
\* what was committed in alert_rules when the call began.
NoReader ==
    [pc |-> "idle", userId |-> 0, stamp |-> Unset, at |-> 0, afterWrite |-> FALSE,
     reloaded |-> FALSE, rows |-> {}, answer |-> {}, settled |-> "", count |-> 0,
     table |-> {}]

NoCache ==
    [ruleCache |-> {}, lastCacheUpdate |-> Unset, written |-> FALSE,
     reader |-> [p \in Procs |-> NoReader]]

InitWith(rules) ==
    /\ records = {}
    /\ ingestion_runs = {}
    /\ alert_rules = rules
    /\ alert_logs = {}
    /\ users = SampleUsers
    /\ serial = [records |-> 0, ingestion_runs |-> 0, alert_rules |-> Cardinality(rules)]
    /\ txn = [p \in Procs |-> NoTxn]
    /\ pc = [p \in Procs |-> "idle"]
    /\ call = [p \in Procs |-> NoCall]
    /\ cur = [p \in Procs |-> NoCur]
    /\ metrics = [totalIngestions |-> 0, totalRecordsProcessed |-> 0, totalErrors |-> 0]
    /\ outcome = << >>
    /\ last = NoLast
    /\ prev = NoLast
    /\ req = [p \in Procs |-> NoReq]
    /\ db = NoDb
    /\ cache = NoCache
    /\ now = 1
    /\ gateway = NoGateway
    /\ walk = NoWalk

Init == InitWith(SampleRules)

(***************************************************************************)
(* The calls a behaviour may make.                                         *)
(***************************************************************************)
\* The records argument of ingestRecords: an array over a pool, or no array.
Givens(pool) ==
    {[isArray |-> TRUE, items |-> s] : s \in SeqsUpTo(pool, MaxLen)}
    \cup {[isArray |-> FALSE, items |-> << >>]}

SourceTypes == {"bulk", "recent", "other"}

\* options.batchSize: 0 stands for an absent option.
BatchSizes == {0, 1}

\* One call, from its beginning to its settling, over the connection
\* outcomes F.
Run(p, F) ==
    \/ GetClient(p, F)
    \/ Begin(p, F)
    \/ InsertRun(p, F)
    \/ SelectExisting(p, F)
    \/ InsertRecord(p, F)
    \/ UpdateRecord(p, F)
    \/ TriggerAlerts(p, F)
    \/ FinishRun(p, F)
    \/ Commit(p, F)
    \/ Rollback(p, F)
    \/ LogFailure(p, F)

\* Sequential runs over a healthy connection.
Pool == {RecA, RecA2, RecOld, RecCirc, RecLong}

Next ==
    \/ \E given \in Givens(Pool), sourceType \in SourceTypes,
          batchSize \in BatchSizes, validate \in BOOLEAN :
            StartRun("p1", given, sourceType, batchSize, validate)
    \/ Run("p1", {FALSE})

Spec == Init /\ [][Next]_vars

\* Inputs that validateRecord refuses, with validation on and off.
GatePool == {RecA, RecLower, RecNoNorm, RecLongKey, RecBadDate}

NextGate ==
    \/ \E given \in Givens(GatePool), sourceType \in SourceTypes, validate \in BOOLEAN :
            StartRun("p1", given, sourceType, 0, validate)
    \/ Run("p1", {FALSE})

SpecGate == Init /\ [][NextGate]_vars

\* The connection may drop at any statement of a run.
FaultPool == {RecA, RecA2, RecLong, RecCirc}

NextFaults ==
    \/ \E given \in Givens(FaultPool), sourceType \in {"bulk", "recent"} :
            StartRun("p1", given, sourceType, 0, TRUE)
    \/ Run("p1", BOOLEAN)

SpecFaults == Init /\ [][NextFaults]_vars

\* Runs on two connections at once, their statements interleaved.
ConcPool == {RecA, RecA2, RecB}

NextConc ==
    \E p \in Procs :
        \/ \E given \in Givens(ConcPool), sourceType \in {"bulk", "recent"} :
                StartRun(p, given, sourceType, 0, TRUE)
        \/ Run(p, {FALSE})

SpecConc == Init /\ [][NextConc]_vars

(***************************************************************************)
(* POST /api/alerts (unnamed/part_001, lines 171-193) and                  *)
(* AlertsService.createAlertRule (unnamed/part_002): one transaction per   *)
(* request, one step per database round trip.                              *)
(***************************************************************************)
\* Requests one client sends in a behaviour.
MaxRequests == 1

\* AlertsService.planLimits; Infinity is a number above every count.
Infinity == 999999
planLimits(plan) ==
    CASE plan = "starter" -> 1
      [] plan = "pro" -> 5
      [] plan = "team" -> Infinity

\* Rows of alert_rules a statement of p sees.
visibleRules(p) == alert_rules \cup txn[p].rules

\* The request ends in an error: transaction() rolls back and releases.
alertFails(p, error) ==
    /\ txn' = [txn EXCEPT ![p] = NoTxn]
    /\ req' = [req EXCEPT ![p].pc = "done", ![p].result = error]

\* The route handler: 400 without a userId, else db.transaction: a
\* connection is checked out and BEGIN is sent.
AlertBegin(p, userId, entityNameNorm, region) ==
    /\ req[p].pc \in {"idle", "done"}
    /\ IF userId = 0
       THEN /\ req' = [req EXCEPT ![p] = [NoReq EXCEPT !.pc = "done", !.result = "400",
                                                !.kind = "create",
                                                !.before = alert_rules,
                                                !.stamp = cache.lastCacheUpdate,
                                                !.count = req[p].count + 1]]
            /\ UNCHANGED txn
       ELSE /\ req' = [req EXCEPT ![p] =
                   [NoReq EXCEPT !.pc = "plan", !.userId = userId,
                                 !.entityNameNorm = entityNameNorm,
                                 !.region = region, !.kind = "create",
                                 !.before = alert_rules,
                                 !.stamp = cache.lastCacheUpdate,
                                 !.count = req[p].count + 1]]
            /\ txn' = [txn EXCEPT ![p] = [NoTxn EXCEPT !.state = "open"]]
    /\ UNCHANGED <<storeVars, pc, call, cur, metrics, outcome, last, prev, db, cache, now, gateway,
                   walk>>

\* createAlertRule, lines 131-151: the checks of the arguments (userId is
\* refused when falsy or not an integer: 0 and NaN), then getUserPlan:
\* SELECT plan FROM users WHERE id = $1.
AlertPlan(p) ==
    /\ req[p].pc = "plan"
    /\ IF \/ req[p].userId = 0 \/ req[p].userId = NaN
          \/ req[p].entityNameNorm = Null /\ req[p].region = Null
          \/ req[p].entityNameNorm # Null /\ StrLen(req[p].entityNameNorm) > NameMaxLen
          \/ req[p].region # Null /\ ~RegionPattern(req[p].region)
       THEN alertFails(p, "ValidationError")
       ELSE IF req[p].userId \notin DOMAIN users
       THEN /\ txn' = [txn EXCEPT ![p] = NoTxn]
            /\ req' = [req EXCEPT ![p].pc = "done", ![p].result = "NotFoundError",
                                  ![p].queried = TRUE]
       ELSE /\ req' = [req EXCEPT ![p].plan = users[req[p].userId], ![p].pc = "count",
                                  ![p].queried = TRUE]
            /\ UNCHANGED txn
    /\ UNCHANGED <<storeVars, pc, call, cur, metrics, outcome, last, prev, db, cache, now, gateway,
                   walk>>

\* A quota check that lets the count reach one past the limit.
AlertCountOffByOne(p) ==
    /\ req[p].pc = "count"
    /\ LET limit == planLimits(req[p].plan)
           currentCount == Cardinality({a \in visibleRules(p) : a.user_id = req[p].userId})
       IN  IF currentCount <= limit
           THEN /\ req' = [req EXCEPT ![p].currentCount = currentCount,
                                      ![p].pc = "insert"]
                /\ UNCHANGED txn
           ELSE /\ txn' = [txn EXCEPT ![p] = NoTxn]
                /\ req' = [req EXCEPT ![p].pc = "done",
                                      ![p].result = "BusinessLogicError",
                                      ![p].currentCount = currentCount]
    /\ UNCHANGED <<storeVars, pc, call, cur, metrics, outcome, last, prev, db, cache, now, gateway,
                   walk>>

\* canCreateAlert, lines 97-122, and createAlertRule, lines 154-161: the
\* plan's limit, SELECT COUNT(*) FROM alert_rules WHERE user_id = $1 unless
\* the plan is unlimited, and the BusinessLogicError when the quota is used up.
AlertCount(p) ==
    /\ req[p].pc = "count"
    /\ LET limit == planLimits(req[p].plan)
           currentCount == Cardinality({a \in visibleRules(p) : a.user_id = req[p].userId})
       IN  IF limit = Infinity
           THEN /\ req' = [req EXCEPT ![p].currentCount = 0, ![p].pc = "insert"]
                /\ UNCHANGED txn
           ELSE IF currentCount < limit
           THEN /\ req' = [req EXCEPT ![p].currentCount = currentCount,
                                      ![p].pc = "insert"]
                /\ UNCHANGED txn
           ELSE \* the message names the plan, currentCount and limit
                /\ txn' = [txn EXCEPT ![p] = NoTxn]
                /\ req' = [req EXCEPT ![p].pc = "done",
                                      ![p].result = "BusinessLogicError",
                                      ![p].currentCount = currentCount]
    /\ UNCHANGED <<storeVars, pc, call, cur, metrics, outcome, last, prev, db, cache, now, gateway,
                   walk>>

\* createAlertRule, lines 164-173: INSERT INTO alert_rules ... RETURNING *,
\* then the cache is invalidated: lastCacheUpdate = null.
AlertInsert(p) ==
    /\ req[p].pc = "insert"
    /\ LET id == serial.alert_rules + 1
       IN  /\ serial' = [serial EXCEPT !.alert_rules = id]
           /\ txn' = [txn EXCEPT ![p].rules = @ \cup
                  {[id |-> id, user_id |-> req[p].userId,
                    entity_name_norm |-> req[p].entityNameNorm,
                    region |-> req[p].region]}]
    /\ req' = [req EXCEPT ![p].pc = "commit"]
    /\ cache' = [cache EXCEPT !.lastCacheUpdate = Unset, !.written = TRUE]
    /\ UNCHANGED <<records, ingestion_runs, alert_rules, alert_logs, users,
                   pc, call, cur, metrics, outcome, last, prev, db, now, gateway, walk>>

\* DatabaseService.transaction: COMMIT and release; the handler answers 201.
AlertCommit(p) ==
    /\ req[p].pc = "commit"
    /\ alert_rules' = alert_rules \cup txn[p].rules
    /\ txn' = [txn EXCEPT ![p] = NoTxn]
    /\ req' = [req EXCEPT ![p].pc = "done", ![p].result = "created"]
    /\ UNCHANGED <<records, ingestion_runs, alert_logs, users, serial,
                   pc, call, cur, metrics, outcome, last, prev, db, cache, now, gateway,
                   walk>>

UserIds == {0, 1, 2, 3, 4}
Filters == {<<Null, Null>>, <<Null, "TX">>, <<"acme energy llc", Null>>, <<Null, "tx">>}

NextAlerts ==
    \E p \in Procs :
        \/ \E userId \in UserIds, f \in Filters :
                req[p].count < MaxRequests /\ AlertBegin(p, userId, f[1], f[2])
        \/ AlertPlan(p)
        \/ AlertCount(p)
        \/ AlertInsert(p)
        \/ AlertCommit(p)

InitAlerts == InitWith({})

SpecAlerts == InitAlerts /\ [][NextAlerts]_vars

\* A deleteAlertRule that takes any existing rule for the caller's own.
deleteAlertRuleAnyOwner(alertRuleId, userId) ==
    IF alertRuleId = NaN \/ userId = NaN THEN "ValidationError"
    ELSE IF \E a \in alert_rules : a.id = alertRuleId THEN "deleted"
    ELSE "NotFoundError"

\* DELETE /api/alerts/:alertId (unnamed/part_001, lines 221-239) and
\* AlertsService.deleteAlertRule: the whole request, run while no other
\* transaction is open.  The route answers 400 without a userId and hands
\* parseInt of both ids on; deleteAlertRule refuses an id that is not an
\* integer (NaN).  DELETE ... WHERE id = $1 AND user_id = $2; without a hit,
\* the SELECT that tells a foreign rule from a missing one; with a hit,
\* lastCacheUpdate = null.  The logs of a deleted rule go with it (ON DELETE
\* CASCADE).
deleteAlertRule(alertRuleId, userId) ==
    LET hit == {a \in alert_rules : a.id = alertRuleId /\ a.user_id = userId}
    IN  IF alertRuleId = NaN \/ userId = NaN THEN "ValidationError"
        ELSE IF hit # {} THEN "deleted"
        ELSE IF \E a \in alert_rules : a.id = alertRuleId THEN "AuthorizationError"
        ELSE "NotFoundError"

\* A delete whose cascade takes the logs of every rule.
DeleteAlertAllLogs(p, alertRuleId, userId) ==
    /\ req[p].pc \in {"idle", "done"}
    /\ \A q \in Procs : txn[q].state = "none"
    /\ LET result == IF userId = 0 THEN "400" ELSE deleteAlertRule(alertRuleId, userId)
           hit == IF result = "deleted"
                  THEN {a \in alert_rules : a.id = alertRuleId /\ a.user_id = userId}
                  ELSE {}
       IN  /\ alert_rules' = alert_rules \ hit
           /\ alert_logs' = IF hit = {} THEN alert_logs ELSE {}
           /\ cache' = IF result = "deleted"
                       THEN [cache EXCEPT !.lastCacheUpdate = Unset, !.written = TRUE]
                       ELSE cache
           /\ req' = [req EXCEPT ![p] =
                  [NoReq EXCEPT !.pc = "done", !.kind = "delete", !.userId = userId,
                                !.alertRuleId = alertRuleId,
                                !.stamp = cache.lastCacheUpdate,
                                !.result = result, !.before = alert_rules,
                                !.count = req[p].count + 1]]
    /\ UNCHANGED <<records, ingestion_runs, users, serial, txn,
                   pc, call, cur, metrics, outcome, last, prev, db, now, gateway, walk>>

\* The DELETE request as a whole.
DeleteAlert(p, alertRuleId, userId) ==
    /\ req[p].pc \in {"idle", "done"}
    /\ \A q \in Procs : txn[q].state = "none"
    /\ LET result == IF userId = 0 THEN "400" ELSE deleteAlertRule(alertRuleId, userId)
           hit == IF result = "deleted"
                  THEN {a \in alert_rules : a.id = alertRuleId /\ a.user_id = userId}
                  ELSE {}
       IN  /\ alert_rules' = alert_rules \ hit
           /\ alert_logs' = {l \in alert_logs : \A a \in hit : l.alert_rule_id # a.id}
           /\ cache' = IF result = "deleted"
                       THEN [cache EXCEPT !.lastCacheUpdate = Unset, !.written = TRUE]
                       ELSE cache
           /\ req' = [req EXCEPT ![p] =
                  [NoReq EXCEPT !.pc = "done", !.kind = "delete", !.userId = userId,
                                !.alertRuleId = alertRuleId,
                                !.stamp = cache.lastCacheUpdate,
                                !.result = result, !.before = alert_rules,
                                !.count = req[p].count + 1]]
    /\ UNCHANGED <<records, ingestion_runs, users, serial, txn,
                   pc, call, cur, metrics, outcome, last, prev, db, now, gateway, walk>>

\* Create and delete requests one after the other.
MaxCalls == 7

QuotaFilters == {<<Null, Null>>, <<Null, "TX">>}

NextQuota ==
    \/ \E userId \in 1..3, f \in QuotaFilters :
            req["p1"].count < MaxCalls /\ AlertBegin("p1", userId, f[1], f[2])
    \/ AlertPlan("p1")
    \/ AlertCount("p1")
    \/ AlertInsert("p1")
    \/ AlertCommit("p1")
    \/ \E alertRuleId \in 1..MaxCalls, userId \in 1..3 :
            req["p1"].count < MaxCalls /\ DeleteAlert("p1", alertRuleId, userId)

SpecQuota == InitAlerts /\ [][NextQuota]_vars

(***************************************************************************)
(* The rule cache of AlertsService (unnamed/part_002, lines 32-74).        *)
(***************************************************************************)

\* getCachedRules(userId): the cache's age is taken from the stamp, Infinity
\* when the stamp is unset; an age above cacheTimeout starts refreshCache,
\* anything else is answered from ruleCache (userId 0: all rules).
cachedFor(rules, userId) ==
    IF userId = 0 THEN rules ELSE {a \in rules : a.user_id = userId}

getCachedRules(p, userId) ==
    /\ cache.reader[p].pc \in {"idle", "done"}
    /\ LET cacheAge == IF cache.lastCacheUpdate # Unset
                       THEN now - cache.lastCacheUpdate ELSE Infinity
           began == [NoReader EXCEPT !.userId = userId,
                                     !.stamp = cache.lastCacheUpdate, !.at = now,
                                     !.afterWrite = cache.written,
                                     !.table = alert_rules,
                                     !.count = cache.reader[p].count + 1]
       IN  cache' = [cache EXCEPT
               !.written = FALSE,
               !.reader[p] =
                   IF cacheAge > cacheTimeout
                   THEN [began EXCEPT !.pc = "select", !.reloaded = TRUE]
                   ELSE [began EXCEPT !.pc = "done", !.settled = "resolved",
                                      !.answer = cachedFor(cache.ruleCache, userId)]]
    /\ UNCHANGED <<storeVars, txn, pc, call, cur, metrics, outcome, last, prev, req, db, now, gateway,
                   walk>>

\* refreshCache, lines 34-36: SELECT * FROM alert_rules on the pool; it sees
\* what is committed.  A failure is thrown on; cache and stamp stay.
refreshCacheSelect(p, ok) ==
    /\ cache.reader[p].pc = "select"
    /\ cache' = [cache EXCEPT !.reader[p] =
           IF ok THEN [@ EXCEPT !.pc = "store", !.rows = alert_rules]
                 ELSE [@ EXCEPT !.pc = "done", !.settled = "rejected"]]
    /\ UNCHANGED <<storeVars, txn, pc, call, cur, metrics, outcome, last, prev, req, db, now, gateway,
                   walk>>

\* A refreshCache that fills the map without clearing it.
refreshCacheStoreMerging(p) ==
    /\ cache.reader[p].pc = "store"
    /\ cache' = [cache EXCEPT
           !.ruleCache = cache.ruleCache \cup cache.reader[p].rows,
           !.lastCacheUpdate = now,
           !.reader[p] = [@ EXCEPT !.pc = "done", !.settled = "resolved",
                                   !.answer = cachedFor(cache.reader[p].rows,
                                                         cache.reader[p].userId)]]
    /\ UNCHANGED <<storeVars, txn, pc, call, cur, metrics, outcome, last, prev, req, db, now,
                   gateway, walk>>

\* refreshCache, lines 38-50, once the SELECT has answered: ruleCache is
\* cleared and filled with the rows, lastCacheUpdate = Date.now();
\* getCachedRules answers from the new cache.
refreshCacheStore(p) ==
    /\ cache.reader[p].pc = "store"
    /\ cache' = [cache EXCEPT
           !.ruleCache = cache.reader[p].rows,
           !.lastCacheUpdate = now,
           !.reader[p] = [@ EXCEPT !.pc = "done", !.settled = "resolved",
                                   !.answer = cachedFor(cache.reader[p].rows,
                                                         cache.reader[p].userId)]]
    /\ UNCHANGED <<storeVars, txn, pc, call, cur, metrics, outcome, last, prev, req, db, now, gateway,
                   walk>>

\* Time passes.
MaxClock == 7

Tick ==
    /\ now < MaxClock
    /\ now' = now + 1
    /\ UNCHANGED <<storeVars, txn, pc, call, cur, metrics, outcome, last, prev, req, db, cache, gateway,
                   walk>>

\* One caller at a time creates and deletes rules and reads the cache, each
\* call after the one before has settled.
MaxServiceCalls == 3
NegativeUser == -2

ServiceUsers == {0, NaN, NegativeUser, 2, 3}
ServiceFilters == {<<Null, Null>>, <<Null, "TX">>, <<Null, "tx">>, <<LongName, "TX">>}

settledService(p) ==
    /\ req[p].pc \in {"idle", "done"}
    /\ cache.reader[p].pc \in {"idle", "done"}
    /\ req[p].count + cache.reader[p].count < MaxServiceCalls

NextService ==
    \/ \E userId \in ServiceUsers, f \in ServiceFilters :
            /\ settledService("p1")
            /\ AlertBegin("p1", userId, f[1], f[2])
    \/ AlertPlan("p1")
    \/ AlertCount("p1")
    \/ AlertInsert("p1")
    \/ AlertCommit("p1")
    \/ \E alertRuleId \in {NaN, 1, 2, 3}, userId \in {0, NaN, 2, 3} :
            /\ settledService("p1")
            /\ DeleteAlert("p1", alertRuleId, userId)
    \/ \E userId \in {0, 2} :
            /\ settledService("p1")
            /\ getCachedRules("p1", userId)
    \/ \E ok \in BOOLEAN : refreshCacheSelect("p1", ok)
    \/ refreshCacheStore("p1")
    \/ Tick

SpecService == Init /\ [][NextService]_vars

\* One caller reads the cache while another creates and deletes rules.
NextCache ==
    \/ \E userId \in {0, 2} :
            /\ cache.reader["p1"].count + req["p2"].count < MaxServiceCalls
            /\ getCachedRules("p1", userId)
    \/ \E ok \in BOOLEAN : refreshCacheSelect("p1", ok)
    \/ refreshCacheStore("p1")
    \/ \E userId \in {1, 3} :
            /\ cache.reader["p1"].count + req["p2"].count < MaxServiceCalls
            /\ AlertBegin("p2", userId, Null, "TX")
    \/ AlertPlan("p2")
    \/ AlertCount("p2")
    \/ AlertInsert("p2")
    \/ AlertCommit("p2")
    \/ \E alertRuleId \in {1, 3}, userId \in {2, 3} :
            /\ cache.reader["p1"].count + req["p2"].count < MaxServiceCalls
            /\ DeleteAlert("p2", alertRuleId, userId)
    \/ Tick

SpecCache == Init /\ [][NextCache]_vars

\* Two callers read the cache at once while rules are created and deleted.
NextRefresh ==
    \/ \E p \in Procs, userId \in {0, 2} :
            /\ cache.reader[p].count < MaxServiceCalls - 1
            /\ getCachedRules(p, userId)
    \/ \E p \in Procs, ok \in BOOLEAN : refreshCacheSelect(p, ok)
    \/ \E p \in Procs : refreshCacheStore(p)
    \/ req["p2"].count < MaxServiceCalls - 1 /\ AlertBegin("p2", 3, Null, "TX")
    \/ AlertPlan("p2")
    \/ AlertCount("p2")
    \/ AlertInsert("p2")
    \/ AlertCommit("p2")
    \/ \E alertRuleId \in {1, 3} :
            req["p2"].count < MaxServiceCalls - 1 /\ DeleteAlert("p2", alertRuleId, 2)

SpecRefresh == Init /\ [][NextRefresh]_vars

\* Two connections ingest into a store in which an earlier recent run has
\* inserted RecA: the row, its run row, the alert logs of both sample rules
\* and the service's metrics are as that run left them (call 0).
InitRace ==
    /\ records = {recordRow(1, RecA, generateContentHash(RecA), "recent", 0)}
    /\ ingestion_runs =
          {[id |-> 1, source_type |-> "recent", records_fetched |-> 1,
            finished_at |-> "set", records_inserted |-> 1, records_updated |-> 0,
            error |-> Null]}
    /\ alert_rules = SampleRules
    /\ alert_logs = {[alert_rule_id |-> a.id, record_id |-> 1, action_type |-> "insert",
                      run |-> 0, at |-> 0] : a \in SampleRules}
    /\ users = SampleUsers
    /\ serial = [records |-> 1, ingestion_runs |-> 1, alert_rules |-> 2]
    /\ txn = [p \in Procs |-> NoTxn]
    /\ pc = [p \in Procs |-> "idle"]
    /\ call = [p \in Procs |-> NoCall]
    /\ cur = [p \in Procs |-> NoCur]
    /\ metrics = [totalIngestions |-> 1, totalRecordsProcessed |-> 1, totalErrors |-> 0]
    /\ outcome = << >>
    /\ last = NoLast
    /\ prev = NoLast
    /\ req = [p \in Procs |-> NoReq]
    /\ db = NoDb
    /\ cache = NoCache
    /\ now = 1
    /\ gateway = NoGateway
    /\ walk = NoWalk

RacePool == {RecA, RecA2, RecB}

NextRace ==
    \E p \in Procs :
        \/ \E given \in Givens(RacePool), sourceType \in {"bulk", "recent"} :
                StartRun(p, given, sourceType, 0, TRUE)
        \/ Run(p, {FALSE})

SpecRace == InitRace /\ [][NextRace]_vars

\* Runs one after the other on a store an earlier recent run has written.
DeferPool == {RecA, RecA2, RecLong}

NextDefer ==
    \/ \E given \in Givens(DeferPool), sourceType \in {"bulk", "recent"} :
            StartRun("p1", given, sourceType, 0, TRUE)
    \/ Run("p1", {FALSE})

SpecDefer == InitRace /\ [][NextDefer]_vars

\* Runs over records of every age, with and without validation.
WindowPool == {RecA, RecEdge, RecLate, RecOld, RecBadDate}

NextWindow ==
    \/ \E given \in Givens(WindowPool), sourceType \in {"bulk", "recent"},
          validate \in BOOLEAN :
            StartRun("p1", given, sourceType, 0, validate)
    \/ Run("p1", {FALSE})

SpecWindow == Init /\ [][NextWindow]_vars

\* Runs over records whose producers normalized the name, did not, or left
\* entity_name_norm out (the connector of unnamed/part_000).
NormPool == {RecA, RecPadded, RecUpper, RecNoNorm}

NextNorm ==
    \/ \E given \in Givens(NormPool), sourceType \in {"bulk", "recent"},
          validate \in BOOLEAN :
            StartRun("p1", given, sourceType, 0, validate)
    \/ Run("p1", {FALSE})

SpecNorm == Init /\ [][NextNorm]_vars

\* Runs that bring a stored record again: with another payload, with a
\* changed field, with fields that hold the separators.
HashPool == {RecA, RecRaw, RecSplit1, RecSplit2, RecLong}

NextHash ==
    \/ \E given \in Givens(HashPool), sourceType \in {"bulk", "recent"} :
            StartRun("p1", given, sourceType, 0, TRUE)
    \/ Run("p1", {FALSE})

SpecHash == Init /\ [][NextHash]_vars

\* Ingestion runs on one connection while rules are created on another.
MaxMatchRequests == 2

MatchPool == {RecA, RecA2, RecB, RecLong}

MatchFilters ==
    {<<Null, Null>>, <<Null, "TX">>, <<"acme energy llc", Null>>, <<"beta corp", "TX">>}

NextMatch ==
    \/ \E given \in Givens(MatchPool) : StartRun("p1", given, "bulk", 0, TRUE)
    \/ Run("p1", {FALSE})
    \/ \E f \in MatchFilters :
            req["p2"].count < MaxMatchRequests /\ AlertBegin("p2", 3, f[1], f[2])
    \/ AlertPlan("p2")
    \/ AlertCount("p2")
    \/ AlertInsert("p2")
    \/ AlertCommit("p2")

SpecMatch == InitAlerts /\ [][NextMatch]_vars

\* Ingestion runs on one connection while rules are created and deleted on
\* another, a delete while no transaction is open.
RetentionPool == {RecA, RecA2, RecLong}

NextRetention ==
    \/ \E given \in Givens(RetentionPool) : StartRun("p1", given, "bulk", 0, TRUE)
    \/ Run("p1", {FALSE})
    \/ req["p2"].count < MaxMatchRequests /\ AlertBegin("p2", 3, Null, "TX")
    \/ AlertPlan("p2")
    \/ AlertCount("p2")
    \/ AlertInsert("p2")
    \/ AlertCommit("p2")
    \/ \E alertRuleId \in 1..3, userId \in 2..3 :
            req["p2"].count < MaxMatchRequests /\ DeleteAlert("p2", alertRuleId, userId)

SpecRetention == Init /\ [][NextRetention]_vars

(***************************************************************************)
(* DatabaseService.transaction and DatabaseService.query on their own: the  *)
(* callback and every statement may succeed or throw.                      *)
(***************************************************************************)
MaxTransactions == 2

otherVars ==
    <<storeVars, txn, pc, call, cur, metrics, outcome, last, prev, req, cache, now, gateway,
      walk>>

\* One more statement on the client of p's transaction call.
issue(p, statement, ok, next) ==
    db' = [db EXCEPT
        !.transaction[p].issued = Append(@, statement),
        !.transaction[p].threw = IF ok THEN @ ELSE @ \cup {statement},
        !.transaction[p].error = IF ok THEN @ ELSE statement,
        !.transaction[p].pc = next]

\* transaction, line 175: getClient() is awaited before the try; when it
\* throws there is no client and nothing else runs.
transactionGetClient(p) ==
    /\ db.transaction[p].pc \in {"idle", "done"}
    /\ db.transaction[p].count < MaxTransactions
    /\ \E ok \in BOOLEAN :
        db' = [db EXCEPT !.transaction[p] =
            [NoTransaction EXCEPT
                !.count = db.transaction[p].count + 1,
                !.pc = IF ok THEN "begin" ELSE "done",
                !.error = IF ok THEN "" ELSE "getClient",
                !.settled = IF ok THEN "" ELSE "rejected"]]
    /\ UNCHANGED otherVars

\* line 178, inside the try
transactionBegin(p) ==
    /\ db.transaction[p].pc = "begin"
    /\ \E ok \in BOOLEAN : issue(p, "BEGIN", ok, IF ok THEN "callback" ELSE "rollback")
    /\ UNCHANGED otherVars

\* line 179
transactionCallback(p) ==
    /\ db.transaction[p].pc = "callback"
    /\ \E ok \in BOOLEAN : issue(p, "callback", ok, IF ok THEN "commit" ELSE "rollback")
    /\ UNCHANGED otherVars

\* lines 180-181: after COMMIT the try returns, and the finally runs
transactionCommit(p) ==
    /\ db.transaction[p].pc = "commit"
    /\ \E ok \in BOOLEAN : issue(p, "COMMIT", ok, IF ok THEN "release" ELSE "rollback")
    /\ UNCHANGED otherVars

\* A catch whose failing ROLLBACK leaves the function before the release.
transactionRollbackNoFinally(p) ==
    /\ db.transaction[p].pc = "rollback"
    /\ \E ok \in BOOLEAN :
        IF ok THEN issue(p, "ROLLBACK", ok, "release")
        ELSE db' = [db EXCEPT
                !.transaction[p].issued = Append(@, "ROLLBACK"),
                !.transaction[p].threw = @ \cup {"ROLLBACK"},
                !.transaction[p].error = "ROLLBACK",
                !.transaction[p].settled = "rejected",
                !.transaction[p].pc = "done"]
    /\ UNCHANGED otherVars

\* lines 182-184: the catch; a ROLLBACK that throws replaces the error, and
\* the finally still runs
transactionRollback(p) ==
    /\ db.transaction[p].pc = "rollback"
    /\ \E ok \in BOOLEAN : issue(p, "ROLLBACK", ok, "release")
    /\ UNCHANGED otherVars

\* lines 185-187: the finally; then the promise settles
transactionRelease(p) ==
    /\ db.transaction[p].pc = "release"
    /\ db' = [db EXCEPT
        !.transaction[p].issued = Append(@, "release"),
        !.transaction[p].settled = IF db.transaction[p].error = ""
                                   THEN "resolved" ELSE "rejected",
        !.transaction[p].pc = "done"]
    /\ UNCHANGED otherVars

NextTransaction ==
    \E p \in Procs :
        \/ transactionGetClient(p)
        \/ transactionBegin(p)
        \/ transactionCallback(p)
        \/ transactionCommit(p)
        \/ transactionRollback(p)
        \/ transactionRelease(p)

SpecTransaction == Init /\ [][NextTransaction]_vars

MaxQueries == 2

Retries == 3
BackoffBase == 1000
BackoffCap == 5000

ErrorCodes == {"ECONNREFUSED", "ETIMEDOUT", "57P01", "40001", "23505", Undef}

\* An error class that flags every failure retryable.
isRetryableAlways(code) == TRUE

\* DatabaseError.isRetryableError
isRetryableError(code) == code \in {"ECONNREFUSED", "ETIMEDOUT", "57P01", "40001"}

\* A caller issues a statement: through DatabaseService.query ("pool") or on
\* the client of a transaction ("client").
queryStart(p, handle) ==
    /\ db.query[p].pc \in {"idle", "done"}
    /\ db' = [db EXCEPT !.query[p] =
            [NoQuery EXCEPT !.pc = "attempt", !.handle = handle,
                            !.count = db.query[p].count + 1]]
    /\ UNCHANGED otherVars

\* DatabaseService.query, lines 98-129: one turn of the for loop.
query(p) ==
    /\ db.query[p].pc = "attempt"
    /\ db.query[p].handle = "pool"
    /\ LET attempt == Len(db.query[p].attempts) + 1
       IN  \/ db' = [db EXCEPT !.query[p].attempts = Append(@, "ok"),
                               !.query[p].returned = attempt,
                               !.query[p].settled = "returned",
                               !.query[p].pc = "done"]
           \/ \E code \in ErrorCodes :
                IF ~isRetryableError(code) \/ attempt = Retries
                THEN db' = [db EXCEPT !.query[p].attempts = Append(@, Str(code)),
                                      !.query[p].settled = "DatabaseError",
                                      !.query[p].pc = "done"]
                ELSE db' = [db EXCEPT !.query[p].attempts = Append(@, Str(code)),
                                      !.query[p].backoff =
                                          IF BackoffBase * 2^(attempt - 1) < BackoffCap
                                          THEN BackoffBase * 2^(attempt - 1)
                                          ELSE BackoffCap,
                                      !.query[p].pc = "backoff"]
    /\ UNCHANGED otherVars

\* line 127: the wait is over, the loop goes on
queryBackoff(p) ==
    /\ db.query[p].pc = "backoff"
    /\ db' = [db EXCEPT !.query[p].pc = "attempt"]
    /\ UNCHANGED otherVars

\* getClient, lines 148-163: the query method put on a checked-out client.
clientQuery(p) ==
    /\ db.query[p].pc = "attempt"
    /\ db.query[p].handle = "client"
    /\ \/ db' = [db EXCEPT !.query[p].attempts = Append(@, "ok"),
                           !.query[p].returned = 1,
                           !.query[p].settled = "returned",
                           !.query[p].pc = "done"]
       \/ \E code \in ErrorCodes :
            db' = [db EXCEPT !.query[p].attempts = Append(@, Str(code)),
                             !.query[p].settled = "DatabaseError",
                             !.query[p].pc = "done"]
    /\ UNCHANGED otherVars

(***************************************************************************)
(* DatabaseService: the pool's events and the reconnect loop               *)
(* (database.js, lines 22-85 and 193-250).                                 *)
(***************************************************************************)

\* The pending timers are kept in the order of their delays.
Insert(seq, d) ==
    LET k == Cardinality({j \in 1..Len(seq) : seq[j] <= d})
    IN  SubSeq(seq, 1, k) \o <<d>> \o SubSeq(seq, k + 1, Len(seq))

\* A handleReconnect that never gives up.
handleReconnectUncapped(g) ==
    [g EXCEPT !.reconnectAttempts = @ + 1,
              !.timers = Insert(@, reconnectDelay * 2^g.reconnectAttempts),
              !.scheduled = @ + 1]

\* handleReconnect, lines 65-85, up to setTimeout: nothing at the maximum,
\* else the counter goes up and a timer is set with the doubled delay.
handleReconnect(g) ==
    IF g.reconnectAttempts >= maxReconnectAttempts
    THEN g
    ELSE [g EXCEPT !.reconnectAttempts = @ + 1,
                   !.timers = Insert(@, reconnectDelay * 2^g.reconnectAttempts),
                   !.scheduled = @ + 1]

\* initialize, lines 22-60: the pool is made, the handlers are attached and
\* the first health check runs.
initialize(ok) ==
    /\ ~gateway.pool
    /\ gateway' = [gateway EXCEPT !.pool = TRUE, !.isConnected = ok]
    /\ UNCHANGED <<storeVars, txn, pc, call, cur, metrics, outcome, last, prev, req, db,
                   cache, now, walk>>

\* pool.on('connect'), lines 42-46: a new client has connected.
poolConnect ==
    /\ gateway.pool
    /\ gateway' = [gateway EXCEPT !.isConnected = TRUE, !.reconnectAttempts = 0,
                                  !.scheduled = 0, !.failed = 0]
    /\ UNCHANGED <<storeVars, txn, pc, call, cur, metrics, outcome, last, prev, req, db,
                   cache, now, walk>>

\* pool.on('error'), lines 48-52: an idle client has failed.  The timers
\* and probes a behaviour holds at once are bounded by MaxTimers.
MaxTimers == 6

poolError ==
    /\ gateway.pool
    /\ Len(gateway.timers) + gateway.probes < MaxTimers
    /\ gateway' = handleReconnect([gateway EXCEPT !.isConnected = FALSE])
    /\ UNCHANGED <<storeVars, txn, pc, call, cur, metrics, outcome, last, prev, req, db,
                   cache, now, walk>>

\* A reconnect timer fires (line 76): its callback calls healthCheck.
Remove(seq, i) == [j \in 1..(Len(seq) - 1) |-> IF j < i THEN seq[j] ELSE seq[j + 1]]

reconnectTimer ==
    /\ \E i \in 1..Len(gateway.timers) :
            gateway' = [gateway EXCEPT !.timers = Remove(@, i), !.probes = @ + 1]
    /\ UNCHANGED <<storeVars, txn, pc, call, cur, metrics, outcome, last, prev, req, db,
                   cache, now, walk>>

\* The health check of a reconnect timer ends (lines 77-83, 193-233): on
\* success isConnected = true; on failure or timeout isConnected = false and
\* handleReconnect is called again.
reconnectProbe(ok) ==
    /\ gateway.probes > 0
    /\ gateway' =
          IF ok
          THEN [gateway EXCEPT !.probes = @ - 1, !.isConnected = TRUE]
          ELSE LET failed == [gateway EXCEPT !.probes = @ - 1, !.isConnected = FALSE,
                                             !.failed = @ + 1]
               IN  handleReconnect(
                      [failed EXCEPT !.exhausted =
                          \/ @
                          \/ /\ failed.failed = maxReconnectAttempts
                             /\ failed.reconnectAttempts = maxReconnectAttempts])
    /\ UNCHANGED <<storeVars, txn, pc, call, cur, metrics, outcome, last, prev, req, db,
                   cache, now, walk>>

\* GET /health (unnamed/part_001, lines 85-87): healthCheck called by the
\* route; a failure is thrown to the route.
healthCheck(ok) ==
    /\ gateway.pool
    /\ gateway' = [gateway EXCEPT !.isConnected = ok]
    /\ UNCHANGED <<storeVars, txn, pc, call, cur, metrics, outcome, last, prev, req, db,
                   cache, now, walk>>

\* getStats, lines 238-250 (the pool's own counts left out).
getStats ==
    IF ~gateway.pool
    THEN [status |-> "not_initialized"]
    ELSE [isConnected |-> gateway.isConnected,
          reconnectAttempts |-> gateway.reconnectAttempts]

NextReconnect ==
    \/ \E ok \in BOOLEAN : initialize(ok)
    \/ poolConnect
    \/ poolError
    \/ reconnectTimer
    \/ \E ok \in BOOLEAN : reconnectProbe(ok)
    \/ \E ok \in BOOLEAN : healthCheck(ok)

SpecReconnect == Init /\ [][NextReconnect]_vars

NextQuery ==
    \/ \E handle \in {"pool", "client"} :
            db.query["p1"].count < MaxQueries /\ queryStart("p1", handle)
    \/ query("p1")
    \/ queryBackoff("p1")
    \/ clientQuery("p1")

SpecQuery == Init /\ [][NextQuery]_vars

(***************************************************************************)
(* Properties.                                                             *)
(***************************************************************************)

\* C3 (Uniqueness): in every committed state, whatever runs came before and
\* however the statements of concurrent runs interleaved, the records table
\* holds at most one row per source_key.
Uniqueness ==
    \A r1 \in records, r2 \in records : r1.source_key = r2.source_key => r1 = r2

\* A run lost the race for a key: its INSERT was refused by the UNIQUE
\* constraint, the run was rolled back, and the winner's row is committed.
UniquenessWitness ==
    /\ last.outcome = "rejected"
    /\ last.aborted = "unique"
    /\ \E r \in records : r.writer # last.call.tag
                          /\ \E k \in DOMAIN last.call.records :
                                last.call.records[k].source_key = r.source_key

\* C4 (Run accounting): for every run that ingestRecords completes,
\* recordsFetched = recordsInserted + recordsUpdated + recordsSkipped +
\* recordsFailed, and every processed record is counted in exactly one of the
\* four counters, whichever step of its upsert or of its alert fan-out failed.
RunAccounting ==
    last.outcome = "resolved" =>
        LET n(action) == Cardinality({k \in DOMAIN last.results : last.results[k] = action})
        IN  /\ last.result.recordsFetched =
                   last.result.recordsInserted + last.result.recordsUpdated
                   + last.result.recordsSkipped + last.result.recordsFailed
            /\ last.result.recordsFetched = Len(last.call.records)
            /\ Len(last.results) = Len(last.call.records)
            /\ last.result.recordsInserted = n("inserted")
            /\ last.result.recordsUpdated = n("updated")
            /\ last.result.recordsSkipped = n("skipped")
            /\ last.result.recordsFailed = n("failed")

\* A completed run in which one record failed during its upsert and another
\* was written.
RunAccountingWitness ==
    /\ last.outcome = "resolved"
    /\ last.result.recordsFailed > 0
    /\ last.result.recordsInserted + last.result.recordsUpdated > 0

\* C8 (Validation gating): when records is not an array, is empty, sourceType
\* is neither bulk nor recent, or (validation enabled) a record to be
\* processed lacks a required field, has a source_key longer than 255, an
\* unparseable published_at or a region not matching ^[A-Z]{2}$, then
\* ingestRecords raises a ValidationError before any side effect: no
\* connection, no run row, no record or alert-log write, metrics unchanged.
ValidationGating ==
    LET invalid(r) ==
            \/ \E f \in DOMAIN RequiredFields : r[RequiredFields[f]] \in {Undef, ""}
            \/ r.source_key \notin {Undef, ""} /\ StrLen(r.source_key) > 255
            \/ r.published_at \notin {Undef, "", "now-10h", "now-100h"}
            \/ r.region \notin {Undef, "", "TX", "CA"}
        processed(c) ==
            IF c.sourceType = "recent"
            THEN SelectSeq(c.given.items,
                           LAMBDA r : r.published_at = "now-10h")
            ELSE c.given.items
        gated(c) ==
            \/ ~c.given.isArray
            \/ c.given.items = << >>
            \/ c.sourceType \notin {"bulk", "recent"}
            \/ c.validate /\ \E k \in DOMAIN processed(c) : invalid(processed(c)[k])
    IN  /\ \A p \in Procs : pc[p] # "idle" => ~gated(call[p])
        /\ (last.outcome # "" /\ gated(last.call)) =>
                /\ last.outcome = "rejected"
                /\ last.error = "ValidationError"
                /\ ~last.call.connected
                /\ last.runId = 0
                /\ records = last.call.before
                /\ ingestion_runs = last.call.runsBefore
                /\ alert_logs = last.call.logsBefore
                /\ metrics = last.call.metricsBefore
                /\ \A p \in Procs : txn[p] = NoTxn

\* A call with validation enabled was refused for a record, after an earlier
\* run had committed rows.
ValidationGatingWitness ==
    /\ last.outcome = "rejected"
    /\ last.error = "ValidationError"
    /\ last.call.validate
    /\ last.call.given.isArray
    /\ last.call.given.items # << >>
    /\ last.call.sourceType \in {"bulk", "recent"}
    /\ records # {}

\* C1 (Idempotence), as stated: for any sequence R of canonical records,
\* calling ingestRecords(R, sourceType) twice in succession leaves |R| rows,
\* with recordsInserted = |R| on the first run and recordsInserted = 0,
\* recordsUpdated = 0, recordsSkipped = |R| on the second.
Idempotence ==
    LET R == last.call.given.items
    IN  ( /\ prev.outcome # "" /\ last.outcome # ""
          /\ last.call.given.isArray /\ R # << >>
          /\ last.call.sourceType \in {"bulk", "recent"}
          /\ \A k \in DOMAIN R : validateRecord(R[k]) )
        => /\ prev.outcome = "resolved" /\ last.outcome = "resolved"
           /\ prev.result.recordsInserted = Len(R)
           /\ last.result.recordsInserted = 0
           /\ last.result.recordsUpdated = 0
           /\ last.result.recordsSkipped = Len(R)
           /\ Cardinality(records) = Len(R)

\* C1 (Idempotence), amended: the same, for a non-empty R whose records have
\* pairwise distinct source_keys, are accepted by validateRecord and by the
\* columns of the store, serialise, lie inside the 72-hour window when
\* sourceType is recent, and whose source_keys the store did not hold before
\* the first call; the rows counted are those with a source_key of R.
IdempotenceAmended ==
    LET R == last.call.given.items
        keys == {R[k].source_key : k \in DOMAIN R}
    IN  ( /\ prev.outcome # "" /\ last.outcome # ""
          /\ last.call.given.isArray /\ R # << >>
          /\ last.call.sourceType \in {"bulk", "recent"}
          /\ Cardinality(keys) = Len(R)
          /\ \A k \in DOMAIN R : /\ validateRecord(R[k])
                                 /\ recordColumnsOk(R[k])
                                 /\ ~stringifyThrows(R[k])
          /\ last.call.sourceType = "recent" =>
                \A k \in DOMAIN R : InWindow(R[k], RecentWindowHours)
          /\ \A r \in prev.call.before : r.source_key \notin keys )
        => /\ prev.outcome = "resolved" /\ last.outcome = "resolved"
           /\ prev.result.recordsInserted = Len(R)
           /\ last.result.recordsInserted = 0
           /\ last.result.recordsUpdated = 0
           /\ last.result.recordsSkipped = Len(R)
           /\ Cardinality({r \in records : r.source_key \in keys}) = Len(R)

\* Two records with different source_keys were ingested twice: the second
\* run skipped both.
IdempotenceWitness ==
    /\ prev.outcome = "resolved" /\ last.outcome = "resolved"
    /\ Len(last.call.given.items) = 2
    /\ prev.result.recordsInserted = 2
    /\ last.result.recordsSkipped = 2
    /\ Cardinality(records) = 2

\* C2 (Source precedence), as stated: if the row of a source_key was last
\* written by bulk, a later recent run carrying a record with that source_key
\* and any content leaves every column of the row unchanged, appends no alert
\* log for it and counts the record in recordsSkipped.
SourcePrecedence ==
    ( /\ last.outcome = "resolved"
      /\ last.call.sourceType = "recent" )
    => LET R == last.call.given.items
           master(k) == {row \in last.call.before :
                            /\ row.source_key = R[k].source_key
                            /\ row.last_source_type = "bulk"}
           carried == {k \in DOMAIN R : master(k) # {}}
       IN  /\ \A k \in carried :
                /\ master(k) \subseteq records
                /\ \A l \in alert_logs \ last.call.logsBefore :
                        \A row \in master(k) : l.record_id # row.id
           /\ last.result.recordsSkipped >= Cardinality(carried)

\* C2 (Source precedence), amended: the row stays unchanged and gets no
\* alert log whatever the record carries and however the run ends; the
\* record is counted in recordsSkipped when it is published inside the
\* 72-hour window (older ones are dropped before processing and counted
\* nowhere) and the run completes.
SourcePrecedenceAmended ==
    ( /\ last.outcome # ""
      /\ last.call.sourceType = "recent"
      /\ last.call.given.isArray )
    => LET R == last.call.given.items
           W == last.call.records
           master(key) == {row \in last.call.before :
                            /\ row.source_key = key
                            /\ row.last_source_type = "bulk"}
           counted == {k \in DOMAIN W : master(W[k].source_key) # {}}
       IN  /\ \A k \in DOMAIN R :
                /\ master(R[k].source_key) \subseteq records
                /\ \A l \in alert_logs \ last.call.logsBefore :
                        \A row \in master(R[k].source_key) : l.record_id # row.id
           /\ W = SelectSeq(R, LAMBDA r : r.published_at = "now-10h")
           /\ last.outcome = "resolved" =>
                /\ \A k \in counted : last.results[k] = "skipped"
                /\ last.result.recordsSkipped >= Cardinality(counted)

\* A recent run carried changed content for a row that bulk had written, and
\* skipped it.
SourcePrecedenceWitness ==
    /\ last.outcome = "resolved"
    /\ last.call.sourceType = "recent"
    /\ \E k \in DOMAIN last.call.records :
        \E row \in last.call.before :
            /\ row.source_key = last.call.records[k].source_key
            /\ row.last_source_type = "bulk"
            /\ row.content_hash # generateContentHash(last.call.records[k])
            /\ row \in records
            /\ last.results[k] = "skipped"

FailureIsolation ==
    LET W == last.call.records
        failing == {k \in DOMAIN W : ~recordColumnsOk(W[k])}
    IN  ( /\ last.outcome # ""
          /\ last.cause # "input"
          /\ ~last.call.validate
          /\ Cardinality(failing) = 1
          /\ \A k \in DOMAIN W : ~stringifyThrows(W[k]) )
        => /\ last.outcome = "resolved"
           /\ last.result.recordsFailed = 1
           /\ last.result.recordsFetched = Len(W)
           /\ \A k \in DOMAIN W \ failing :
                \E r \in records : r.source_key = W[k].source_key
           /\ \E run \in ingestion_runs :
                run.id = last.runId /\ run.error = "1 records failed to process"

\* C7 (Gateway failures are transaction-fatal): when the transactional handle
\* loses its connection during the SELECT, INSERT or UPDATE of processRecord,
\* the failure leaves the record loop and is not counted as a per-record
\* failure: the run goes to its rollback and rejects.
GatewayFailureFatal ==
    /\ \A p \in Procs :
        call[p].lostAt \in {"SELECT records", "INSERT records", "UPDATE records"} =>
            /\ pc[p] \in {"rollback", "logfailure"}
            /\ cur[p].failed = 0
    /\ last.call.lostAt \in {"SELECT records", "INSERT records", "UPDATE records"} =>
            /\ last.outcome = "rejected"
            /\ last.failed = 0

\* C9 (Failure accounting): every attempt that inserted its run row leaves a
\* row in ingestion_runs; when the transaction aborted after that insert and
\* the follow-up write succeeded, the row has finished_at and error set.
FailureAccounting ==
    (last.outcome # "" /\ last.runId # 0) =>
        \E run \in ingestion_runs :
            /\ run.id = last.runId
            /\ (last.outcome = "rejected" /\ last.followup = "ok") =>
                    run.finished_at # Null /\ run.error # Null

\* C10 (Quota atomicity): two create-alert requests for the same starter-plan
\* user never both commit: no interleaving leaves a starter user with more
\* rules than the plan's limit of one.
QuotaAtomicity ==
    \A u \in DOMAIN users :
        users[u] = "starter" =>
            Cardinality({a \in alert_rules : a.user_id = u}) <= 1

\* C11 (Plan quota invariant): after any sequence of non-overlapping create
\* and delete calls every user holds at most planLimit(plan) rules (starter 1,
\* pro 5, team unlimited); a create that would exceed the limit fails with a
\* BusinessLogicError naming the plan and the counts and inserts nothing, and
\* a create succeeds only below the limit.
PlanQuota ==
    LET held(rules, u) == Cardinality({a \in rules : a.user_id = u})
        limited(u) == users[u] \in {"starter", "pro"}
        limit(u) == IF users[u] = "starter" THEN 1 ELSE 5
        r == req["p1"]
    IN  /\ \A u \in DOMAIN users : limited(u) => held(alert_rules, u) <= limit(u)
        /\ (r.pc = "done" /\ r.kind = "create" /\ r.userId \in DOMAIN users
            /\ r.result \in {"created", "BusinessLogicError"}) =>
              IF limited(r.userId) /\ held(r.before, r.userId) >= limit(r.userId)
              THEN /\ r.result = "BusinessLogicError"
                   /\ r.plan = users[r.userId]
                   /\ r.currentCount = held(r.before, r.userId)
                   /\ alert_rules = r.before
              ELSE /\ r.result = "created"
                   /\ held(alert_rules, r.userId) = held(r.before, r.userId) + 1

\* The pro user holds five rules and a sixth create was refused, after a rule
\* had been deleted on the way.
PlanQuotaWitness ==
    /\ req["p1"].pc = "done"
    /\ req["p1"].result = "BusinessLogicError"
    /\ req["p1"].plan = "pro"
    /\ req["p1"].currentCount = 5
    /\ serial.alert_rules > 5

\* C12 (Fan-out atomicity): for every record a committed run inserted or
\* content-changed, alert_logs holds exactly one row per alert rule matching
\* the record, carrying the record's id and the action type, and no row of
\* that write for any other rule; a record the run skipped or failed on has
\* no alert log, and no alert log is committed without its run's writes.
FanOutAtomicity ==
    /\ \A l \in alert_logs :
        /\ l.run \in DOMAIN outcome /\ outcome[l.run] = "resolved"
        /\ \E r \in records : r.id = l.record_id
    /\ last.outcome = "resolved" =>
        \A k \in DOMAIN last.results :
            LET rec == last.call.records[k]
                logs == {l \in alert_logs : l.run = last.call.tag /\ l.at = k - 1}
                matching == {a \in alert_rules :
                                /\ a.entity_name_norm \in {Null, rec.entity_name_norm}
                                /\ a.region \in {Null, rec.region}}
            IN  IF last.results[k] \in {"inserted", "updated"}
                THEN /\ Cardinality(logs) = Cardinality(matching)
                     /\ \A a \in matching :
                            Cardinality({l \in logs : l.alert_rule_id = a.id}) = 1
                     /\ \A l \in logs :
                            /\ l.action_type = IF last.results[k] = "inserted"
                                               THEN "insert" ELSE "update"
                            /\ \E r \in records :
                                /\ r.id = l.record_id
                                /\ r.source_key = rec.source_key
                ELSE logs = {}

\* A committed run inserted a record and then changed its content; both sample
\* rules match it, and both writes left two alert logs each.
FanOutAtomicityWitness ==
    /\ last.outcome = "resolved"
    /\ Len(last.results) = 2
    /\ last.results[1] = "inserted"
    /\ last.results[2] = "updated"
    /\ Cardinality({l \in alert_logs : l.run = last.call.tag}) = 4

\* C13 (Alert matching): the rules a record write triggers are exactly the
\* rules whose every set filter equals the record's field, an unset filter
\* being a wildcard; a rule with region TX and no entity filter triggers on
\* every inserted or content-changed TX record and on none of another region;
\* creating a rule with both filters unset is rejected, so no such rule exists.
AlertMatching ==
    /\ [][\A p \in Procs :
            (pc[p] = "alerts" /\ pc'[p] # "alerts") =>
                LET rec == curRecord(p)
                    triggered == {l.alert_rule_id : l \in txn'[p].logs \ txn[p].logs}
                    set(v) == v # Null
                IN  /\ triggered =
                          {a.id : a \in {b \in alert_rules :
                              /\ set(b.entity_name_norm) =>
                                    b.entity_name_norm = rec.entity_name_norm
                              /\ set(b.region) => b.region = rec.region}}
                    /\ \A a \in alert_rules :
                          (a.region = "TX" /\ a.entity_name_norm = Null) =>
                              (a.id \in triggered <=> rec.region = "TX")]_vars
    /\ [](\A p \in Procs :
            /\ \A a \in alert_rules \cup txn[p].rules :
                  a.entity_name_norm # Null \/ a.region # Null
            /\ (req[p].pc = "done" /\ req[p].kind = "create"
                /\ req[p].entityNameNorm = Null /\ req[p].region = Null) =>
                  /\ req[p].result = "ValidationError"
                  /\ alert_rules = req[p].before)

\* A create without filters was refused after a TX-only rule had been made;
\* a run then inserted a TX record, which triggered the rule, and a CA record,
\* which did not.
AlertMatchingWitness ==
    /\ req["p2"].result = "ValidationError"
    /\ req["p2"].entityNameNorm = Null /\ req["p2"].region = Null
    /\ last.outcome = "resolved"
    /\ last.results = <<"inserted", "inserted">>
    /\ last.call.records = <<RecA, RecB>>
    /\ \E a \in alert_rules :
        /\ a.region = "TX" /\ a.entity_name_norm = Null
        /\ \E l \in alert_logs :
            l.alert_rule_id = a.id /\ l.run = last.call.tag /\ l.at = 0
        /\ ~\E l \in alert_logs :
            l.alert_rule_id = a.id /\ l.run = last.call.tag /\ l.at = 1

\* C14 (Source precedence across concurrent runs): when a bulk run and a
\* recent run write the same source_key concurrently on separate connections,
\* in no interleaving is a committed row whose last_source_type is bulk
\* replaced by a recent run's version; once a bulk run has committed a write
\* to a row, the committed row stays a bulk version.
ConcurrentPrecedence ==
    [][\A r \in records :
          r.last_source_type = "bulk" =>
              \A r2 \in records' :
                  r2.source_key = r.source_key =>
                      r2 = r \/ r2.last_source_type = "bulk"]_vars

\* C15 (Recent defers to bulk): once a bulk run has processed a record with a
\* given source_key (inserted it, updated it, or skipped it because the stored
\* content was identical), no later recent run changes that row.
RecentDefersToBulk ==
    [][\A p \in Procs :
          call[p].sourceType = "recent" =>
              \A r \in records :
                  r.source_key \in call[p].bulkDone => r \in records']_vars

\* C16 (transaction(scope)): for every outcome of BEGIN, of the scope, of
\* COMMIT and of ROLLBACK, COMMIT is issued only when BEGIN and the scope
\* succeeded, ROLLBACK is issued whenever BEGIN, the scope or COMMIT failed
\* (and only then), and the checked-out connection is released exactly once,
\* after the COMMIT or ROLLBACK, on every exit path.
TransactionDiscipline ==
    \A p \in Procs :
        LET t == db.transaction[p]
            at(e) == {i \in DOMAIN t.issued : t.issued[i] = e}
            n == Len(t.issued)
        IN  /\ \A e \in {"BEGIN", "callback", "COMMIT", "ROLLBACK", "release"} :
                    Cardinality(at(e)) <= 1
            /\ at("COMMIT") # {} =>
                    /\ n >= 3 /\ t.issued[1] = "BEGIN" /\ t.issued[2] = "callback"
                    /\ at("COMMIT") = {3}
                    /\ "BEGIN" \notin t.threw /\ "callback" \notin t.threw
            /\ at("ROLLBACK") # {} =>
                    /\ t.threw \cap {"BEGIN", "callback", "COMMIT"} # {}
                    /\ \A i \in at("ROLLBACK") : t.issued[i - 1] \in t.threw
            /\ (t.threw \cap {"BEGIN", "callback", "COMMIT"} # {}
                /\ t.pc # "rollback") => at("ROLLBACK") # {}
            /\ at("release") # {} =>
                    /\ at("release") = {n}
                    /\ t.issued[n - 1] \in {"COMMIT", "ROLLBACK"}
            /\ t.pc = "done" =>
                    IF t.error = "getClient"
                    THEN t.issued = << >>
                    ELSE /\ Cardinality(at("release")) = 1
                         /\ t.settled = IF t.threw = {} THEN "resolved" ELSE "rejected"

\* COMMIT threw, then ROLLBACK threw as well, and the connection was released
\* all the same.
TransactionDisciplineWitness ==
    \E p \in Procs :
        /\ db.transaction[p].pc = "done"
        /\ db.transaction[p].issued =
              <<"BEGIN", "callback", "COMMIT", "ROLLBACK", "release">>
        /\ db.transaction[p].threw = {"COMMIT", "ROLLBACK"}

\* C17 (Retry discipline): a standalone query makes at most three attempts;
\* it makes another attempt only after a failure flagged retryable
\* (ECONNREFUSED, ETIMEDOUT, 57P01 or 40001); it returns the result of the
\* first successful attempt; it raises a DatabaseError without a further
\* attempt on a non-retryable failure (after exactly one attempt when the
\* first failure is non-retryable) and after exactly three attempts when all
\* fail retryably.  A statement on a transactional handle is attempted exactly
\* once, even when its failure is retryable.
RetryDiscipline ==
    LET q == db.query["p1"]
        n == Len(q.attempts)
        retryable == {"ECONNREFUSED", "ETIMEDOUT", "57P01", "40001"}
    IN  /\ n <= 3
        /\ \A k \in 2..n : q.attempts[k - 1] \in retryable
        /\ q.handle = "client" => n <= 1
        /\ q.pc = "backoff" => q.backoff = IF n = 1 THEN 1000 ELSE 2000
        /\ q.pc = "done" =>
            /\ n >= 1
            /\ q.handle = "client" => n = 1
            /\ q.settled = "returned" <=> q.attempts[n] = "ok"
            /\ q.settled = "returned" => q.returned = n
            /\ q.settled = "DatabaseError" <=> q.attempts[n] # "ok"
            /\ (q.handle = "pool" /\ q.attempts[n] # "ok") =>
                  \/ q.attempts[n] \notin retryable
                  \/ n = 3
            /\ (q.handle = "pool" /\ q.attempts[1] \notin retryable) => n = 1
            /\ (q.handle = "pool" /\ \A k \in 1..n : q.attempts[k] \in retryable) => n = 3

\* Three retryable failures in a row ended a standalone query.
RetryDisciplineWitness ==
    /\ db.query["p1"].pc = "done"
    /\ db.query["p1"].handle = "pool"
    /\ db.query["p1"].attempts = <<"40001", "ETIMEDOUT", "57P01">>
    /\ db.query["p1"].settled = "DatabaseError"

\* C18 (Time filter): a recent run processes exactly the input records whose
\* published_at parses to an instant not older than now - 72 h, in their
\* original order, and reports recordsFetched as the number of survivors
\* (records published 10 h and 100 h ago give recordsFetched = 1); a bulk run
\* processes every record.
TimeFilter ==
    LET fresh(r) == \E age \in 0..72 : AgeHours(r.published_at) = age
        kept(items, sourceType) ==
            IF sourceType = "recent"
            THEN {i \in DOMAIN items : fresh(items[i])}
            ELSE DOMAIN items
        nth(S, k) == CHOOSE i \in S : Cardinality({j \in S : j <= i}) = k
        exact(c) ==
            LET S == kept(c.given.items, c.sourceType)
            IN  /\ Len(c.records) = Cardinality(S)
                /\ \A k \in 1..Len(c.records) : c.records[k] = c.given.items[nth(S, k)]
    IN  /\ \A p \in Procs : pc[p] # "idle" => exact(call[p])
        /\ last.outcome = "resolved" =>
            LET n == Cardinality(kept(last.call.given.items, last.call.sourceType))
            IN  /\ exact(last.call)
                /\ Len(last.results) = n
                /\ last.result.recordsFetched = n
                /\ \E run \in ingestion_runs :
                        run.id = last.runId /\ run.records_fetched = n
                /\ \A k \in 1..n :
                        last.results[k] \in {"inserted", "updated"} =>
                            \E r \in records :
                                /\ r.source_key = last.call.records[k].source_key
                                /\ r.writer = last.call.tag
                /\ \A r \in records :
                        r.writer = last.call.tag =>
                            \E k \in 1..n :
                                /\ r.source_key = last.call.records[k].source_key
                                /\ r.published_at = last.call.records[k].published_at

\* A recent run given a record published 10 hours ago and one published 100
\* hours ago resolved with recordsFetched = 1 and stored the first only.
TimeFilterWitness ==
    /\ last.outcome = "resolved"
    /\ last.call.sourceType = "recent"
    /\ last.call.given.items = <<RecA, RecOld>>
    /\ last.result.recordsFetched = 1
    /\ last.results = <<"inserted">>
    /\ \A r \in records : r.source_key = RecA.source_key

\* C19 (Normalization invariant): every committed row of records satisfies
\* entity_name_norm = lowercase(trim(entity_name_raw)), for every input the
\* engine accepts, with validation enabled or disabled.
Normalization ==
    \A r \in records : r.entity_name_norm = toLowerCase(trim(r.entity_name_raw))

CanonicalOf(x) ==
    <<x.source_key, x.published_at, x.title, x.entity_name_raw, x.entity_name_norm,
      x.region, x.record_id, x.status,
      IF x.document_url \in {Undef, Null, ""} THEN "" ELSE x.document_url>>

\* C21 (Hash determinism): the fingerprint is a function of the nine canonical
\* fields only, so two records that differ only in raw_json have the same
\* fingerprint; re-ingesting a record that differs from the stored row only in
\* raw_json is counted as skipped and leaves the row, its stored raw_json
\* included, unchanged: at every SELECT the run's transaction answers, and
\* for every run of one such record as a whole.
HashDeterminism ==
    /\ [](\A a \in HashPool, b \in HashPool :
            CanonicalOf(a) = CanonicalOf(b) =>
                generateContentHash(a) = generateContentHash(b))
    /\ [][\A p \in Procs :
            (pc[p] = "select" /\ (pc'[p] # pc[p] \/ cur'[p] # cur[p])
             /\ usable(p)
             /\ \E row \in visibleRecords(p) : CanonicalOf(row) = CanonicalOf(curRecord(p)))
            => /\ cur'[p].results = Append(cur[p].results, "skipped")
               /\ cur'[p].skipped = cur[p].skipped + 1
               /\ txn'[p] = txn[p]
               /\ records' = records]_vars
    /\ [](last.outcome = "resolved" /\ Len(last.call.records) = 1 =>
            \A row \in last.call.before :
                CanonicalOf(row) = CanonicalOf(last.call.records[1]) =>
                    /\ last.result.recordsSkipped = 1
                    /\ last.result.recordsUpdated = 0
                    /\ row \in records)

\* A run brought RecA again with another raw_json: counted as skipped, and the
\* row still holds the payload it was inserted with.
HashDeterminismWitness ==
    /\ last.outcome = "resolved"
    /\ last.call.records = <<RecRaw>>
    /\ last.result.recordsSkipped = 1
    /\ \E row \in records :
        /\ row \in last.call.before
        /\ row.source_key = RecA.source_key
        /\ row.title = RecA.title
        /\ row.raw_json = RecA.raw_json

\* C22 (Change detection is complete): two records that differ in any
\* canonical field have different serializations, hence different
\* fingerprints, so a re-ingested record that differs from the stored row in
\* any canonical field is never skipped as identical.
ChangeDetection ==
    [][\A p \in Procs :
        (pc[p] = "select" /\ (pc'[p] # pc[p] \/ cur'[p] # cur[p])
         /\ \E row \in visibleRecords(p) :
                /\ row.source_key = curRecord(p).source_key
                /\ CanonicalOf(row) # CanonicalOf(curRecord(p))
                /\ ~(call[p].sourceType = "recent" /\ row.last_source_type = "bulk"))
        => cur'[p].results # Append(cur[p].results, "skipped")]_vars

(***************************************************************************)
(* C23. Delete ownership.  The step that settles a deleteAlertRule call.   *)
(***************************************************************************)
deleteSettles == req'["p1"] # req["p1"] /\ req'["p1"].kind = "delete" /\ req'["p1"].result # "400"
deleteExists == \E a \in alert_rules : a.id = req'["p1"].alertRuleId
deleteOwned ==
    \E a \in alert_rules : a.id = req'["p1"].alertRuleId /\ a.user_id = req'["p1"].userId
deleteIntegers == req'["p1"].alertRuleId # NaN /\ req'["p1"].userId # NaN
deleteNothing == alert_rules' = alert_rules /\ cache'.lastCacheUpdate = cache.lastCacheUpdate

\* C23 as stated: the rule is removed iff it exists and belongs to userId;
\* a rule that does not exist gives NotFoundError, a rule of another user
\* AuthorizationError, and both leave the rules and the cache stamp as they
\* were.
DeleteOwnershipStated ==
    [][deleteSettles =>
        /\ deleteOwned <=> (req'["p1"].result = "deleted")
        /\ deleteOwned =>
              alert_rules' = {a \in alert_rules : a.id # req'["p1"].alertRuleId}
        /\ ~deleteExists => req'["p1"].result = "NotFoundError" /\ deleteNothing
        /\ deleteExists /\ ~deleteOwned =>
              req'["p1"].result = "AuthorizationError" /\ deleteNothing]_vars

\* C23, amended: the same for two integer ids; an id that is not an integer
\* is refused with ValidationError, rules and cache stamp unchanged.
DeleteOwnership ==
    [][deleteSettles =>
        /\ ~deleteIntegers => req'["p1"].result = "ValidationError" /\ deleteNothing
        /\ deleteIntegers =>
              /\ deleteOwned <=> (req'["p1"].result = "deleted")
              /\ deleteOwned =>
                    /\ alert_rules' = {a \in alert_rules : a.id # req'["p1"].alertRuleId}
                    /\ cache'.lastCacheUpdate = Unset
              /\ ~deleteExists => req'["p1"].result = "NotFoundError" /\ deleteNothing
              /\ deleteExists /\ ~deleteOwned =>
                    req'["p1"].result = "AuthorizationError" /\ deleteNothing]_vars

\* A rule of another user was asked for while the cache stamp was set, and
\* the call failed with AuthorizationError.
DeleteOwnershipWitness ==
    /\ req["p1"].kind = "delete" /\ req["p1"].result = "AuthorizationError"
    /\ req["p1"].stamp # Unset /\ cache.lastCacheUpdate = req["p1"].stamp
    /\ \E a \in alert_rules : a.id = req["p1"].alertRuleId /\ a.user_id # req["p1"].userId

(***************************************************************************)
(* C24. Create validation.                                                 *)
(***************************************************************************)
createSettles ==
    /\ req'["p1"] # req["p1"] /\ req'["p1"].pc = "done"
    /\ req'["p1"].kind = "create" /\ req'["p1"].result # "400"

\* C24: a createAlertRule call whose user_id is not a positive integer, or
\* that sets no filter, or whose entity_name_norm is longer than 255, or
\* whose region is not two capitals, fails with ValidationError before it
\* has sent anything to the database, and leaves the rules and the cache
\* stamp as they were.
CreateValidation ==
    [][(/\ createSettles
        /\ \/ req'["p1"].userId = NaN \/ req'["p1"].userId <= 0
           \/ req'["p1"].entityNameNorm = Null /\ req'["p1"].region = Null
           \/ req'["p1"].entityNameNorm # Null
                 /\ StrLen(req'["p1"].entityNameNorm) > NameMaxLen
           \/ req'["p1"].region # Null /\ ~RegionPattern(req'["p1"].region)) =>
        /\ req'["p1"].result = "ValidationError"
        /\ ~req'["p1"].queried
        /\ alert_rules' = req'["p1"].before
        /\ cache'.lastCacheUpdate = req'["p1"].stamp]_vars

(***************************************************************************)
(* C25. Cache freshness protocol.                                          *)
(***************************************************************************)
\* C25: a getCachedRules call goes to the database exactly when it finds the
\* stamp unset or older than the five minutes, and answers from the cache
\* otherwise; createAlertRule and deleteAlertRule unset the stamp when they
\* succeed; so the first getCachedRules call that begins after such a write
\* reloads.
CacheFreshness ==
    /\ [](\A p \in Procs :
            cache.reader[p].pc # "idle" =>
               (cache.reader[p].reloaded <=>
                   \/ cache.reader[p].stamp = Unset
                   \/ cache.reader[p].at - cache.reader[p].stamp > cacheTimeout))
    /\ [][\A p \in Procs :
            \/ req[p].pc = "insert" /\ req'[p].pc = "commit"
            \/ req'[p] # req[p] /\ req'[p].kind = "delete" /\ req'[p].result = "deleted"
            => cache'.lastCacheUpdate = Unset]_vars
    /\ [](\A p \in Procs :
            cache.reader[p].pc # "idle" /\ cache.reader[p].afterWrite =>
                cache.reader[p].reloaded)

(***************************************************************************)
(* C26. Reconnect cap.                                                     *)
(***************************************************************************)
\* C26: however pool errors, pool connects, reconnect timers and the
\* outcomes of their health checks interleave, reconnectAttempts never
\* exceeds five, and at most five reconnect probes have been scheduled since
\* the counter was last reset.
ReconnectCap ==
    /\ gateway.reconnectAttempts <= maxReconnectAttempts
    /\ gateway.scheduled <= maxReconnectAttempts
    /\ gateway.scheduled = gateway.reconnectAttempts

\* Five probes were scheduled and all have failed: the counter is at its
\* maximum and nothing is pending.
ReconnectCapWitness ==
    /\ gateway.exhausted
    /\ gateway.reconnectAttempts = maxReconnectAttempts
    /\ gateway.scheduled = maxReconnectAttempts
    /\ gateway.failed = maxReconnectAttempts
    /\ gateway.timers = << >> /\ gateway.probes = 0

(***************************************************************************)
(* C27. Degraded after exhaustion.                                         *)
(***************************************************************************)
\* C27: once five reconnect probes have been used and have all failed, the
\* gateway is never connected again, getStats reports it as not connected,
\* and no further reconnect timer is set.
DegradedAfterExhaustion ==
    /\ [](gateway.exhausted => ~gateway.isConnected /\ ~getStats.isConnected)
    /\ [][gateway.exhausted => Len(gateway'.timers) <= Len(gateway.timers)]_vars

MetricsUnderConcurrency ==
    /\ [](metrics.totalIngestions =
             Cardinality({k \in 1..Len(outcome) : outcome[k] = "resolved"}))
    /\ [][IF \E k \in 1..Len(outcome) : outcome[k] = "running" /\ outcome'[k] = "resolved"
          THEN metrics'.totalRecordsProcessed =
                  metrics.totalRecordsProcessed + last'.result.recordsFetched
          ELSE metrics'.totalRecordsProcessed = metrics.totalRecordsProcessed]_vars

\* Two calls have resolved; the one that resolved last began before the
\* other had resolved, and both are counted.
MetricsUnderConcurrencyWitness ==
    /\ Len(outcome) = 2 /\ outcome[1] = "resolved" /\ outcome[2] = "resolved"
    /\ last.outcome = "resolved"
    /\ last.call.metricsBefore.totalIngestions = 0
    /\ last.result.recordsFetched > 0
    /\ metrics.totalIngestions = 2
    /\ metrics.totalRecordsProcessed > last.result.recordsFetched

(***************************************************************************)
(* C30. Ordering within a run.                                             *)
(***************************************************************************)
\* C30: whatever the batch size, the record a run is working on is the one
\* that follows, in the input sequence, the records it has finished; a step
\* of the run either issues a later statement of the same record or finishes
\* the record, and only then does the run turn to the next record or, once
\* every record has a result, leave the loop.
OrderingWithinRun ==
    /\ [](\A p \in Procs :
            pc[p] \in {"select", "insert", "update", "alerts"} =>
                /\ Len(cur[p].results) < Len(call[p].records)
                /\ cur[p].i + cur[p].j = Len(cur[p].results)
                /\ curRecord(p) = call[p].records[Len(cur[p].results) + 1])
    /\ [][\A p \in Procs :
            (/\ pc[p] \in {"select", "insert", "update", "alerts"}
             /\ (pc'[p] # pc[p] \/ cur'[p] # cur[p])) =>
                \/ /\ cur'[p].results = cur[p].results
                   /\ \/ pc[p] = "select" /\ pc'[p] \in {"insert", "update"}
                      \/ pc[p] \in {"insert", "update"} /\ pc'[p] = "alerts"
                \/ /\ Len(cur'[p].results) = Len(cur[p].results) + 1
                   /\ SubSeq(cur'[p].results, 1, Len(cur[p].results)) = cur[p].results
                   /\ \/ pc'[p] = "select"
                         /\ Len(cur'[p].results) < Len(call[p].records)
                      \/ pc'[p] = "finish"
                         /\ Len(cur'[p].results) = Len(call[p].records)]_vars

\* A run with batch size 1 is at the fan-out of its second record: the first
\* record has its result, the second has none yet.
OrderingWithinRunWitness ==
    /\ pc["p1"] = "alerts"
    /\ call["p1"].batchSize = 1
    /\ Len(call["p1"].records) = 2
    /\ Len(cur["p1"].results) = 1
    /\ cur["p1"].i = 1 /\ cur["p1"].j = 0

(***************************************************************************)
(* C31. Run finalization.                                                  *)
(***************************************************************************)
\* C31: a call that has resolved has a committed ingestion_runs row with
\* finished_at set, the returned inserted and updated counts, and an error
\* text exactly when recordsFailed > 0; a call that has resolved or rejected
\* keeps that outcome.
RunFinalization ==
    /\ [](last.outcome = "resolved" =>
            \E r \in ingestion_runs :
                /\ r.id = last.result.runId
                /\ r.finished_at = "set"
                /\ r.records_inserted = last.result.recordsInserted
                /\ r.records_updated = last.result.recordsUpdated
                /\ (r.error # Null) <=> (last.result.recordsFailed > 0))
    /\ [][\A k \in 1..Len(outcome) :
            outcome[k] \in {"resolved", "rejected"} => outcome'[k] = outcome[k]]_vars

\* A call has resolved with a failed record; its run row carries the error.
RunFinalizationWitness ==
    /\ last.outcome = "resolved"
    /\ last.result.recordsFailed > 0
    /\ last.result.recordsInserted > 0
    /\ \E r \in ingestion_runs : r.id = last.result.runId /\ r.error # Null

(***************************************************************************)
(* C32. No alert on skip.                                                  *)
(***************************************************************************)
\* C32: the step in which a record is skipped, as identical or by source
\* precedence, writes no alert log; a resolved run all of whose records were
\* skipped leaves alert_logs as it found them, matching rules or not.
NoAlertOnSkip ==
    /\ [][\A p \in Procs :
            (/\ Len(cur'[p].results) = Len(cur[p].results) + 1
             /\ cur'[p].results[Len(cur'[p].results)] = "skipped") =>
                /\ txn'[p].logs = txn[p].logs
                /\ alert_logs' = alert_logs]_vars
    /\ [](/\ last.outcome = "resolved"
          /\ last.results # << >>
          /\ \A i \in 1..Len(last.results) : last.results[i] = "skipped"
          => alert_logs = last.call.logsBefore)

\* A resolved run skipped its only record, whose stored row matches a rule
\* that logged it in an earlier run; the logs are those of the earlier run.
NoAlertOnSkipWitness ==
    /\ last.outcome = "resolved"
    /\ last.results = <<"skipped">>
    /\ alert_logs # {}
    /\ \E r \in records, a \in alert_rules :
          /\ r.source_key = last.call.records[1].source_key
          /\ ruleMatches(a, r)
          /\ \E l \in alert_logs : l.record_id = r.id /\ l.alert_rule_id = a.id

(***************************************************************************)
(* C33. Racing cache refreshes.                                            *)
(***************************************************************************)
\* C33: however refreshCache calls interleave, the rows a call holds are the
\* complete answer of its one SELECT, and the rule cache changes only by
\* being replaced as a whole with the rows of one call, stamped in the same
\* step; the answer of the call is that result grouped by user.
RacingRefreshes ==
    /\ [][\A p \in Procs :
            cache.reader[p].pc = "select" /\ cache'.reader[p].pc = "store" =>
                cache'.reader[p].rows = alert_rules /\ cache'.ruleCache = cache.ruleCache]_vars
    /\ [][cache'.ruleCache # cache.ruleCache =>
            \E p \in Procs :
                /\ cache.reader[p].pc = "store"
                /\ cache'.ruleCache = cache.reader[p].rows
                /\ cache'.lastCacheUpdate = now
                /\ cache'.reader[p].answer =
                      cachedFor(cache'.ruleCache, cache.reader[p].userId)]_vars

\* Two refreshes raced over a write: one has filled the cache with its rows
\* while the other still holds different rows to store.
RacingRefreshesWitness ==
    /\ cache.reader["p1"].pc = "done" /\ cache.reader["p1"].reloaded
    /\ cache.reader["p1"].settled = "resolved"
    /\ cache.reader["p2"].pc = "store"
    /\ cache.reader["p2"].rows # cache.reader["p1"].rows
    /\ cache.ruleCache = cache.reader["p1"].rows
    /\ cache.ruleCache # {}

(***************************************************************************)
(* C39. Error preservation in transaction().                               *)
(***************************************************************************)
\* C39: when BEGIN, the callback or COMMIT has thrown, transaction() rejects
\* with that error, whatever the ROLLBACK did.
ErrorPreservation ==
    \A p \in Procs :
        db.transaction[p].settled = "rejected" =>
            \A statement \in {"BEGIN", "callback", "COMMIT"} :
                statement \in db.transaction[p].threw =>
                    db.transaction[p].error = statement

(***************************************************************************)
(* C34. Failure reporting.                                                 *)
(***************************************************************************)
\* C34: when the transaction of a run has aborted, the call rejects with the
\* error that aborted it, as a ValidationError or a DatabaseError, whether
\* the follow-up write of the run row succeeds or fails; totalErrors grows
\* by one and the other two counters stay.
FailureReporting ==
    [][\A p \in Procs :
          pc[p] \in {"rollback", "logfailure"} =>
             /\ pc[p] = "rollback" /\ pc'[p] = "logfailure" =>
                   cur'[p].error = cur[p].error
             /\ pc'[p] = "idle" =>
                   /\ last'.outcome = "rejected"
                   /\ last'.error \in {"ValidationError", "DatabaseError"}
                   /\ last'.cause = cur[p].error
                   /\ metrics' = [metrics EXCEPT !.totalErrors = @ + 1]]_vars

(***************************************************************************)
(* processBatch's two loops on their own (ingestion.js, lines 210-249),    *)
(* for every batchSize ingestRecords hands over: options.batchSize || 100  *)
(* (line 256), where the routes pass parseInt(req.body.batchSize) || 100   *)
(* (part_001, lines 118-125).  Records are named by their position, and    *)
(* every processRecord call returns (a failure is caught at 226-236).      *)
(***************************************************************************)
MaxWalkLen == 3

\* How far below zero the loop variable i is followed: at or below -length
\* every i gives the same empty batch, so a lower i is kept as -MaxDescent.
MaxDescent == 4

\* options.batchSize: 0 stands for an absent option (0 || 100 is 100).
WalkSizes == {-2, -1, 0, 1, 2, 3}

\* Array.prototype.slice(start, end) on an array of len elements, as the
\* positions (from 1) of the elements it returns: a negative bound counts
\* from the end, both are clamped to 0..len.
slice(len, start, end) ==
    LET clamp(x) == IF x < 0 THEN (IF len + x < 0 THEN 0 ELSE len + x)
                             ELSE (IF x > len THEN len ELSE x)
        from == clamp(start)
        to   == clamp(end)
    IN  [n \in 1..(IF to > from THEN to - from ELSE 0) |-> from + n]

\* ingestRecords reaches processBatch: line 256, then line 220's let i = 0.
walkStart(length, size) ==
    /\ walk.pc \in {"idle", "done"}
    /\ walk' = [NoWalk EXCEPT !.pc = "loop", !.length = length,
                              !.batchSize = IF size = 0 THEN DefaultBatchSize ELSE size]
    /\ UNCHANGED <<storeVars, txn, pc, call, cur, metrics, outcome, last, prev, req, db,
                   cache, now, gateway>>

\* Line 220's test and line 221: the next batch, or the end of the walk.
walkLoop ==
    /\ walk.pc = "loop"
    /\ walk' = IF walk.i < walk.length
               THEN [walk EXCEPT !.pc = "batch", !.k = 1,
                                 !.batch = slice(walk.length, walk.i, walk.i + walk.batchSize)]
               ELSE [walk EXCEPT !.pc = "done"]
    /\ UNCHANGED <<storeVars, txn, pc, call, cur, metrics, outcome, last, prev, req, db,
                   cache, now, gateway>>

\* Lines 223-238: one record of the batch; after the last, line 220's
\* i += batchSize.
walkRecord ==
    /\ walk.pc = "batch"
    /\ walk' = IF walk.k <= Len(walk.batch)
               THEN [walk EXCEPT !.visited = Append(@, walk.batch[walk.k]), !.k = @ + 1]
               ELSE [walk EXCEPT !.pc = "loop", !.batch = << >>, !.k = 0,
                                 !.i = IF @ + walk.batchSize < -MaxDescent
                                       THEN -MaxDescent ELSE @ + walk.batchSize]
    /\ UNCHANGED <<storeVars, txn, pc, call, cur, metrics, outcome, last, prev, req, db,
                   cache, now, gateway>>

NextWalk ==
    \/ \E length \in 1..MaxWalkLen, size \in WalkSizes : walkStart(length, size)
    \/ walkLoop
    \/ walkRecord

SpecWalk == Init /\ [][NextWalk]_vars /\ WF_vars(walkLoop) /\ WF_vars(walkRecord)

\* C35: the batch walk comes to an end for every batchSize that is handed
\* over (any non-zero number, negative included), and when it ends every
\* record has been visited exactly once, in the order of the array.
BatchWalk ==
    /\ [](walk.pc = "done" => walk.visited = [n \in 1..walk.length |-> n])
    /\ (walk.pc \in {"loop", "batch"} ~> walk.pc = "done")

\* C37: no run is empty.  Every ingestion_runs row has records_fetched >= 1,
\* and a call that is left with no record to process (the recent call whose
\* records all lie outside the 72-hour window included) is rejected with a
\* ValidationError, without opening a transaction and without a run row.
NoEmptyRun ==
    /\ \A run \in ingestion_runs : run.records_fetched >= 1
    /\ \A p \in DOMAIN txn : \A run \in txn[p].runs : run.records_fetched >= 1
    /\ (last.outcome # "" /\ Len(last.call.records) = 0) =>
           /\ last.outcome = "rejected"
           /\ last.error = "ValidationError"
           /\ ~last.call.connected
           /\ ingestion_runs = last.call.runsBefore

\* C38: the cache is coherent with committed writes.  A getCachedRules call
\* that begins after a createAlertRule or deleteAlertRule has committed
\* answers with the rules as that write left them (no later write having
\* committed meanwhile), and the cache never carries a set stamp over
\* content other than what is committed in alert_rules.
CacheCoherence ==
    /\ \A p \in Procs :
          /\ cache.reader[p].pc = "done"
          /\ cache.reader[p].settled = "resolved"
          /\ cache.reader[p].table = alert_rules
          => cache.reader[p].answer = cachedFor(alert_rules, cache.reader[p].userId)
    /\ cache.lastCacheUpdate # Unset => cache.ruleCache = alert_rules

(***************************************************************************)
(* healthCheck step by step (database.js, lines 193-233): the inner async  *)
(* function checks a connection out and sends the probe query, and races   *)
(* against the 5-second timer; catch and finally run in the step in which  *)
(* the race settles.  gateway.check is the call that is waiting on the     *)
(* race, gateway.late counts the inner functions whose call the deadline   *)
(* has ended while pool.connect() was still pending (connectionTimeout-    *)
(* Millis is 10 seconds, line 37), gateway.held the connections that       *)
(* health checks have checked out and not released.                        *)
(***************************************************************************)
MaxChecks == 5

\* Lines 194-214: no pool, or the timer is set and pool.connect() called.
healthCheckBegin ==
    /\ gateway.check.pc \in {"idle", "done"}
    /\ gateway.check.count < MaxChecks
    /\ gateway' = [gateway EXCEPT !.check =
           IF gateway.pool
           THEN [pc |-> "connect", settled |-> "", count |-> @.count + 1]
           ELSE [pc |-> "done", settled |-> "rejected", count |-> @.count + 1]]
    /\ UNCHANGED <<storeVars, txn, pc, call, cur, metrics, outcome, last, prev, req, db,
                   cache, now, walk>>

\* Line 208 before the deadline: client = await this.pool.connect(), then
\* the probe query is sent; a failed checkout settles the race, and catch
\* and finally run with client still null.
healthCheckConnect(ok) ==
    /\ gateway.check.pc = "connect"
    /\ gateway' = IF ok
                  THEN [gateway EXCEPT !.check.pc = "query", !.held = @ + 1]
                  ELSE [gateway EXCEPT !.check.pc = "done", !.check.settled = "rejected",
                                       !.isConnected = FALSE]
    /\ UNCHANGED <<storeVars, txn, pc, call, cur, metrics, outcome, last, prev, req, db,
                   cache, now, walk>>

\* Lines 209-232 before the deadline: the probe query answers or fails, and
\* finally releases the client.
healthCheckQuery(ok) ==
    /\ gateway.check.pc = "query"
    /\ gateway' = [gateway EXCEPT !.check.pc = "done",
                                  !.check.settled = IF ok THEN "resolved" ELSE "rejected",
                                  !.isConnected = ok,
                                  !.held = @ - 1]
    /\ UNCHANGED <<storeVars, txn, pc, call, cur, metrics, outcome, last, prev, req, db,
                   cache, now, walk>>

\* Lines 202-204: the timer fires first.  catch and finally run at once:
\* finally releases client when it has been assigned (the query is still
\* in flight) and finds null when pool.connect() has not answered yet.
healthCheckTimeout ==
    /\ gateway.check.pc \in {"connect", "query"}
    /\ gateway' = [gateway EXCEPT !.check.pc = "done", !.check.settled = "rejected",
                                  !.isConnected = FALSE,
                                  !.held = IF gateway.check.pc = "query" THEN @ - 1 ELSE @,
                                  !.late = IF gateway.check.pc = "connect" THEN @ + 1 ELSE @]
    /\ UNCHANGED <<storeVars, txn, pc, call, cur, metrics, outcome, last, prev, req, db,
                   cache, now, walk>>

\* Line 208 after the deadline: pool.connect() answers an inner function
\* whose call has ended; it assigns client and sends the query, and no
\* finally is left to run.
healthCheckLate(ok) ==
    /\ gateway.late > 0
    /\ gateway' = [gateway EXCEPT !.late = @ - 1,
                                  !.held = IF ok THEN @ + 1 ELSE @]
    /\ UNCHANGED <<storeVars, txn, pc, call, cur, metrics, outcome, last, prev, req, db,
                   cache, now, walk>>

NextHealth ==
    \/ \E ok \in BOOLEAN : initialize(ok)
    \/ healthCheckBegin
    \/ \E ok \in BOOLEAN : healthCheckConnect(ok)
    \/ \E ok \in BOOLEAN : healthCheckQuery(ok)
    \/ healthCheckTimeout
    \/ \E ok \in BOOLEAN : healthCheckLate(ok)

SpecHealth == Init /\ [][NextHealth]_vars

\* C36: a health check returns its connection.  Once no health check has
\* anything in flight (no call waiting on the race, no checkout pending),
\* no connection is held by a health check, whichever of the checkout, the
\* probe query and the 5-second deadline came first.
HealthProbeReturns ==
    (gateway.check.pc \in {"idle", "done"} /\ gateway.late = 0) => gateway.held = 0

=============================================================================
